---------------------------- MODULE Spec2Model ----------------------------
(***************************************************************************)
(* State-machine model of the PLATON forward model:                        *)
(*   - AtmosphereSolver        (src/platon/_atmosphere_solver.py)          *)
(*   - TransitDepthCalculator  (src/transit_depth_calculator.py)           *)
(*                                                                         *)
(* Numbers.  Physical quantities are integers in scaled units:             *)
(*   wavelengths  : the native grid is 2, 4, ..., 2*NLambda; bin edges may *)
(*                  fall on or between grid points;                        *)
(*   temperatures : units of 100 K;                                        *)
(*   table values : units of the floor value 1e-99, so 1 is the floor and  *)
(*                  0 is an entry below the floor; NaN is the value NaN.   *)
(* Profiles are placed on nodes of the (T,P) grid, where the code's linear *)
(* interpolation in (T, log P) returns the tabulated value.                *)
(*                                                                         *)
(* Calls.  Each method is one action that runs the whole method.  What the *)
(* call returned or raised is kept in ret until the caller drops it        *)
(* (Discard); a method is called only when no result is pending.           *)
(***************************************************************************)
EXTENDS Integers, Sequences, FiniteSets

VARIABLES
    solver,     \* the AtmosphereSolver instance (its attributes)
    calc,       \* the TransitDepthCalculator instance (its attributes)
    instance,   \* which of the classes the client drives
    getter,     \* the AbundanceGetter instance (its attributes)
    binning,    \* a change_wavelength_bins call in progress, step by step
    ret,        \* outcome of the last call, "idle" once consumed
    info        \* the FitInfo instance (its attributes), None before it is built

vars == <<solver, calc, instance, getter, binning, ret, info>>

---------------------------------------------------------------------------
(* Bounds of the model *)

NLambda == 8
MaxBins == 2

---------------------------------------------------------------------------
(* Optional values: None is <<>>, a present value x is <<x>> *)

None == <<>>
Some(x) == <<x>>
Val(o) == o[1]

(* numpy reductions and boolean-mask indexing on 1-D arrays *)

SeqMin(s) == CHOOSE x \in {s[i] : i \in 1..Len(s)} : \A j \in 1..Len(s) : x <= s[j]
SeqMax(s) == CHOOSE x \in {s[i] : i \in 1..Len(s)} : \A j \in 1..Len(s) : x >= s[j]

RECURSIVE TrueIdx(_, _)
TrueIdx(cond, i) ==
    IF i > Len(cond) THEN <<>>
    ELSE IF cond[i] THEN <<i>> \o TrueIdx(cond, i + 1)
    ELSE TrueIdx(cond, i + 1)

\* a[cond] for a boolean array cond of the same length as a
MaskSeq(a, cond) ==
    LET idx == TrueIdx(cond, 1) IN [k \in 1..Len(idx) |-> a[idx[k]]]

RECURSIVE SumSeq(_)
SumSeq(s) == IF Len(s) = 0 THEN 0 ELSE s[1] + SumSeq(Tail(s))

---------------------------------------------------------------------------
(* The data files read at construction (immutable source tables) *)

WavelengthsFile == [i \in 1..NLambda |-> 2 * i]
TemperaturesFile == <<2, 3, 6>>
PressuresFile == <<1, 2, 4>>

AbsorbingSpecies == {"H2O"}
CollisionalPairs == {<<"H2", "H2">>}
AllSpecies == {"H2", "H2O"}

\* AtmosphereSolver layout: absorption_data[species][T index][P index][wavelength index]
AbsorptionFile ==
    [s \in AbsorbingSpecies |->
        [t \in 1..Len(TemperaturesFile) |->
            [p \in 1..Len(PressuresFile) |->
                [w \in 1..NLambda |-> (t * p + w) % 4]]]]

\* AtmosphereSolver layout: collisional_absorption_data[pair][T index][wavelength index]
CollisionalFile ==
    [pr \in CollisionalPairs |->
        [t \in 1..Len(TemperaturesFile) |->
            [w \in 1..NLambda |-> (t + w) % 3]]]

---------------------------------------------------------------------------
(* Wavelength bins offered to change_wavelength_bins *)

LMin == WavelengthsFile[1]
LMax == WavelengthsFile[NLambda]

BinChoices ==
    { <<0, 6>>,            \* starts below the grid
      <<6, LMax + 2>>,     \* ends above the grid
      <<2, 3>>,            \* no grid point strictly inside
      <<6, 6>>,            \* zero width
      <<LMax, 2>>,         \* reversed
      <<2, 6>>,            \* one grid point inside, starts on a grid point
      <<6, LMax>>,         \* shares the edge 6 with the previous bin
      <<LMin, LMax>> }     \* the whole grid, overlaps both

RECURSIVE SeqsUpTo(_, _)
SeqsUpTo(S, n) ==
    IF n = 0 THEN {<<>>}
    ELSE LET shorter == SeqsUpTo(S, n - 1)
         IN shorter \cup {Append(q, x) : q \in shorter, x \in S}

BinLists == SeqsUpTo(BinChoices, MaxBins) \ {<<>>}
BinArgs == {None} \cup {Some(b) : b \in BinLists}

---------------------------------------------------------------------------
(* AtmosphereSolver.__init__ *)

\* AbundanceGetter.min_temperature for the chosen chemistry tables
AbundanceMinTemperature(include_condensation) ==
    IF include_condensation THEN 3 ELSE 1

Max2(a, b) == IF a >= b THEN a ELSE b

AtmosphereSolver_init(arguments) ==
    [ arguments |-> arguments,
      absorption_data |-> AbsorptionFile,
      lambda_grid |-> WavelengthsFile,
      collisional_absorption_data |-> CollisionalFile,
      P_grid |-> PressuresFile,
      T_grid |-> TemperaturesFile,
      N_lambda |-> Len(WavelengthsFile),
      N_T |-> Len(TemperaturesFile),
      N_P |-> Len(PressuresFile),
      wavelength_rebinned |-> FALSE,
      wavelength_bins |-> None,
      min_temperature |->
          Max2(SeqMin(TemperaturesFile),
               AbundanceMinTemperature(arguments.include_condensation)),
      max_temperature |-> SeqMax(TemperaturesFile) ]

---------------------------------------------------------------------------
(* AtmosphereSolver.change_wavelength_bins *)

WarnPoints == 5

\* np.logical_and(lambda_grid > start, lambda_grid < end) for one wavelength
StrictlyInside(w, bin) == w > bin[1] /\ w < bin[2]

\* variant: the lower comparison is not strict
num_points_closed_start(grid, bin) ==
    Cardinality({i \in 1..Len(grid) : grid[i] >= bin[1] /\ grid[i] < bin[2]})

num_points(grid, bin) ==
    Cardinality({i \in 1..Len(grid) : StrictlyInside(grid[i], bin)})

\* the two raise statements of the validation loop, for one bin
OutOfGrid(grid, bin) ==
    \/ bin[1] < SeqMin(grid)
    \/ bin[1] > SeqMax(grid)
    \/ bin[2] < SeqMin(grid)
    \/ bin[2] > SeqMax(grid)

BinInvalid(grid, bin) == OutOfGrid(grid, bin) \/ num_points(grid, bin) = 0

\* index of the bin at which the loop raises, 0 if it runs to the end
RECURSIVE FirstInvalid(_, _, _)
FirstInvalid(grid, bins, k) ==
    IF k > Len(bins) THEN 0
    ELSE IF BinInvalid(grid, bins[k]) THEN k
    ELSE FirstInvalid(grid, bins, k + 1)

\* the WARNING lines printed for bins[1..n], in order
Warnings(grid, bins, n) ==
    LET w == [k \in 1..Len(bins) |->
                 k <= n /\ num_points(grid, bins[k]) <= WarnPoints]
    IN MaskSeq(bins, w)

\* cond = np.any([logical_and(grid > start, grid < end) for bins], axis=0)
BinCond(grid, bins) ==
    [i \in 1..Len(grid) |-> \E k \in 1..Len(bins) : StrictlyInside(grid[i], bins[k])]

\* the assignments after the validation loop, in program order
MarkRebinned(s, bins) ==
    [s EXCEPT !.wavelength_rebinned = TRUE, !.wavelength_bins = Some(bins)]

RestrictAbsorption(s, cond) ==
    [s EXCEPT !.absorption_data =
        [key \in DOMAIN s.absorption_data |->
            [t \in DOMAIN s.absorption_data[key] |->
                [p \in DOMAIN s.absorption_data[key][t] |->
                    MaskSeq(s.absorption_data[key][t][p], cond)]]]]

\* variant: N_lambda keeps the old count
RestrictLambda_stale_count(s, cond) ==
    [s EXCEPT !.lambda_grid = MaskSeq(s.lambda_grid, cond)]

RestrictLambda(s, cond) ==
    LET g == MaskSeq(s.lambda_grid, cond)
    IN [s EXCEPT !.lambda_grid = g, !.N_lambda = Len(g)]

\* variant: the collisional tables are left on the old grid
RestrictCollisional_skipped(s, cond) == s

RestrictCollisional(s, cond) ==
    [s EXCEPT !.collisional_absorption_data =
        [key \in DOMAIN s.collisional_absorption_data |->
            [t \in DOMAIN s.collisional_absorption_data[key] |->
                MaskSeq(s.collisional_absorption_data[key][t], cond)]]]

ApplyBins(s, bins) ==
    LET cond == BinCond(s.lambda_grid, bins)
    IN RestrictCollisional(
         RestrictLambda(
           RestrictAbsorption(MarkRebinned(s, bins), cond), cond), cond)

\* variant: the flag is cleared without reloading the tables
ResetIfRebinned_flag_only(s) == [s EXCEPT !.wavelength_rebinned = FALSE]

\* if self.wavelength_rebinned: self.__init__(**self.arguments); ... = False
ResetIfRebinned(s) ==
    IF s.wavelength_rebinned
    THEN [AtmosphereSolver_init(s.arguments) EXCEPT !.wavelength_rebinned = FALSE]
    ELSE s

Idle == [op |-> "idle"]

BinsReturn(cls, bins, before, raised, warned) ==
    [ op |-> "change_wavelength_bins", cls |-> cls, bins |-> bins,
      rebinned_before |-> before, raised |-> raised, warned |-> warned ]

change_wavelength_bins(bins) ==
    /\ ret = Idle
    /\ LET s0 == ResetIfRebinned(solver)
           bad == IF bins = None THEN 0
                  ELSE FirstInvalid(s0.lambda_grid, Val(bins), 1)
       IN IF bins = None
          THEN /\ solver' = s0
               /\ ret' = BinsReturn("AtmosphereSolver", bins,
                                    solver.wavelength_rebinned, "", <<>>)
          ELSE IF bad > 0
          THEN /\ solver' = s0
               /\ ret' = BinsReturn("AtmosphereSolver", bins,
                                    solver.wavelength_rebinned, "ValueError",
                                    Warnings(s0.lambda_grid, Val(bins), bad - 1))
          ELSE /\ solver' = ApplyBins(s0, Val(bins))
               /\ ret' = BinsReturn("AtmosphereSolver", bins,
                                    solver.wavelength_rebinned, "",
                                    Warnings(s0.lambda_grid, Val(bins), Len(Val(bins))))
    /\ UNCHANGED <<calc, instance, getter, binning, info>>

---------------------------------------------------------------------------
(* TransitDepthCalculator.__init__ and change_wavelength_bins *)

\* TransitDepthCalculator layout: absorption_data[species][wavelength index][P index][T index]
TDC_AbsorptionFile ==
    [s \in AbsorbingSpecies |->
        [w \in 1..NLambda |->
            [p \in 1..Len(PressuresFile) |->
                [t \in 1..Len(TemperaturesFile) |-> AbsorptionFile[s][t][p][w]]]]]

\* TransitDepthCalculator layout: collisional_absorption_data[pair][wavelength index][T index]
TDC_CollisionalFile ==
    [pr \in CollisionalPairs |->
        [w \in 1..NLambda |->
            [t \in 1..Len(TemperaturesFile) |-> CollisionalFile[pr][t][w]]]]

TDC_init(star_radius, g) ==
    [ absorption_data |-> TDC_AbsorptionFile,
      lambda_grid |-> WavelengthsFile,
      collisional_absorption_data |-> TDC_CollisionalFile,
      P_grid |-> PressuresFile,
      T_grid |-> TemperaturesFile,
      N_lambda |-> Len(WavelengthsFile),
      N_T |-> Len(TemperaturesFile),
      N_P |-> Len(PressuresFile),
      wavelength_rebinned |-> FALSE,
      wavelength_bins |-> None,
      g |-> g,
      star_radius |-> star_radius ]

\* the assignments of lines 40-52; the wavelength axis is the first one
TDC_ApplyBins(c, bins) ==
    LET cond == BinCond(c.lambda_grid, bins)
        g == MaskSeq(c.lambda_grid, cond)
    IN [c EXCEPT
          !.wavelength_rebinned = TRUE,
          !.wavelength_bins = Some(bins),
          !.absorption_data =
              [key \in DOMAIN c.absorption_data |->
                  MaskSeq(c.absorption_data[key], cond)],
          !.collisional_absorption_data =
              [key \in DOMAIN c.collisional_absorption_data |->
                  MaskSeq(c.collisional_absorption_data[key], cond)],
          !.lambda_grid = g,
          !.N_lambda = Len(g)]

TDC_change_wavelength_bins(bins) ==
    /\ ret = Idle
    /\ IF calc.wavelength_rebinned
       THEN /\ calc' = calc
            /\ ret' = BinsReturn("TransitDepthCalculator", bins, TRUE,
                                 "NotImplementedError", <<>>)
       ELSE IF bins = None
       THEN \* the two attributes are set, then iterating over None raises
            /\ calc' = [calc EXCEPT !.wavelength_rebinned = TRUE,
                                    !.wavelength_bins = None]
            /\ ret' = BinsReturn("TransitDepthCalculator", bins, FALSE,
                                 "TypeError", <<>>)
       ELSE /\ calc' = TDC_ApplyBins(calc, Val(bins))
            /\ ret' = BinsReturn("TransitDepthCalculator", bins, FALSE, "", <<>>)
    /\ UNCHANGED <<solver, instance, getter, binning, info>>

---------------------------------------------------------------------------
(* The caller consumes the outcome of the last call *)

Discard ==
    /\ ret # Idle
    /\ ret' = Idle
    /\ UNCHANGED <<solver, calc, instance, getter, binning, info>>

---------------------------------------------------------------------------
(* Floating point.  The abundance store's numbers go through arithmetic    *)
(* that rounds, so they are decimal floating-point numbers <<m, e>> with   *)
(* value m * 10^e and FloatDigits significant digits (normalized: m = 0,   *)
(* or 10^(FloatDigits-1) <= |m| < 10^FloatDigits).  Every operation rounds *)
(* its exact result to nearest.                                            *)

FloatDigits == 2

RECURSIVE Pow10(_)
Pow10(n) == IF n = 0 THEN 1 ELSE 10 * Pow10(n - 1)

Abs(x) == IF x < 0 THEN 0 - x ELSE x
Sign(x) == IF x < 0 THEN 0 - 1 ELSE 1

RECURSIVE Normalize(_, _)
Normalize(m, e) ==
    IF m = 0 THEN <<0, 0>>
    ELSE IF Abs(m) >= Pow10(FloatDigits)
    THEN Normalize(Sign(m) * ((Abs(m) + 5) \div 10), e + 1)
    ELSE IF Abs(m) < Pow10(FloatDigits - 1)
    THEN Normalize(m * 10, e - 1)
    ELSE <<m, e>>

FromInt(n) == Normalize(n, 0)

FNeg(a) == <<0 - a[1], a[2]>>

FAdd(a, b) ==
    IF a[1] = 0 THEN b
    ELSE IF b[1] = 0 THEN a
    ELSE IF a[2] - b[2] > FloatDigits + 1 THEN a
    ELSE IF b[2] - a[2] > FloatDigits + 1 THEN b
    ELSE LET e == IF a[2] < b[2] THEN a[2] ELSE b[2]
         IN Normalize(a[1] * Pow10(a[2] - e) + b[1] * Pow10(b[2] - e), e)

FSub(a, b) == FAdd(a, FNeg(b))

FMul(a, b) == Normalize(a[1] * b[1], a[2] + b[2])

FDiv(a, b) ==
    Normalize(Sign(a[1]) * Sign(b[1])
                 * ((Abs(a[1]) * Pow10(FloatDigits + 1)) \div Abs(b[1])),
              a[2] - b[2] - (FloatDigits + 1))

FLt(a, b) == FSub(a, b)[1] < 0
FLe(a, b) == FSub(a, b)[1] <= 0

\* largest integer not above a non-negative float
Floor(a) ==
    IF a[2] >= 0 THEN a[1] * Pow10(a[2]) ELSE a[1] \div Pow10(0 - a[2])

RECURSIVE Pow2(_)
Pow2(n) == IF n = 0 THEN 1 ELSE 2 * Pow2(n - 1)

\* 10.0 ** x, for x an integer number of units of log10(2)
Exp10(x) ==
    IF x >= 0 THEN FromInt(Pow2(x)) ELSE FDiv(FromInt(1), FromInt(Pow2(0 - x)))

---------------------------------------------------------------------------
(* AbundanceGetter (src/abundance_getter.py): tables per metallicity *)

\* number of points of all_logZ
NFiles == 4

\* np.linspace(-1, 3, 81)
all_logZ == [i \in 1..NFiles |-> i - 2]

\* (N_T, N_P)
StoreShape == <<Len(TemperaturesFile), Len(PressuresFile)>>

\* the table pickled for the i-th metallicity: one grid per species; one
\* entry alternates between 100 and 0.001 from file to file
AbundanceFile(i) ==
    [sp \in AllSpecies |->
        [t \in 1..StoreShape[1] |->
            [p \in 1..StoreShape[2] |->
                IF sp = "H2O" /\ t = 1 /\ p = 1
                THEN (IF i % 2 = 0 THEN Normalize(1, 2) ELSE Normalize(1, 0 - 3))
                ELSE FromInt(i + t + p)]]]

\* file_exists[i]: whether the file of the i-th metallicity is on disk
load_ggchem_files(include_condensates, file_exists) ==
    [ min_temperature |-> AbundanceMinTemperature(include_condensates),
      metallicities |-> MaskSeq([i \in 1..NFiles |-> Exp10(all_logZ[i])], file_exists),
      abundances |-> MaskSeq([i \in 1..NFiles |-> AbundanceFile(i)], file_exists) ]

AllFilesExist == [i \in 1..NFiles |-> TRUE]

\* [0.1, 1, 5, 10, 30, 50, 100, 1000]
ExoMetallicities ==
    << Normalize(1, 0 - 1), FromInt(1), FromInt(5), FromInt(10),
       FromInt(30), FromInt(50), FromInt(100), FromInt(1000) >>

\* the tables read by eos_reader.get_abundances, one per metallicity
load_exotransmit_files(include_condensates) ==
    [ min_temperature |-> 1,
      metallicities |-> ExoMetallicities,
      abundances |-> [i \in 1..Len(ExoMetallicities) |-> AbundanceFile(i)] ]

\* np.min and np.max of the stored metallicities
FMin(s) == CHOOSE i \in 1..Len(s) : \A j \in 1..Len(s) : FLe(s[i], s[j])
FMax(s) == CHOOSE i \in 1..Len(s) : \A j \in 1..Len(s) : FLe(s[j], s[i])
get_metallicity_bounds(g) ==
    <<g.metallicities[FMin(g.metallicities)], g.metallicities[FMax(g.metallicities)]>>

\* scipy.interpolate.interp1d(x, y, axis=0)(x_new), linear: the bracketing
\* interval is found by searchsorted, clipped to [1, len(x) - 1], and the
\* value is slope * (x_new - x_lo) + y_lo
Bracket(x, x_new) ==
    LET idx == Cardinality({i \in 1..Len(x) : FLt(x[i], x_new)})
        hi0 == IF idx < 1 THEN 1 ELSE IF idx > Len(x) - 1 THEN Len(x) - 1 ELSE idx
    IN [lo |-> hi0, hi |-> hi0 + 1]

LinearInterp(x_lo, x_hi, y_lo, y_hi, x_new) ==
    FAdd(FMul(FDiv(FSub(y_hi, y_lo), FSub(x_hi, x_lo)), FSub(x_new, x_lo)), y_lo)

InterpGrids(g, metallicity) ==
    LET b == Bracket(g.metallicities, metallicity)
    IN [key \in DOMAIN g.abundances[1] |->
          [t \in DOMAIN g.abundances[1][key] |->
             [p \in DOMAIN g.abundances[1][key][t] |->
                LinearInterp(g.metallicities[b.lo], g.metallicities[b.hi],
                             g.abundances[b.lo][key][t][p],
                             g.abundances[b.hi][key][t][p],
                             metallicity)]]]

\* variant: a query outside the stored range is answered from the end interval
AbundanceGetter_interp_unbounded(g, metallicity) ==
    [raised |-> "", value |-> InterpGrids(g, metallicity)]

\* AbundanceGetter.interp: interp1d raises ValueError outside [x[0], x[-1]]
AbundanceGetter_interp(g, metallicity) ==
    IF \/ FLt(metallicity, g.metallicities[1])
       \/ FLt(g.metallicities[Len(g.metallicities)], metallicity)
    THEN [raised |-> "ValueError", value |-> <<>>]
    ELSE [raised |-> "", value |-> InterpGrids(g, metallicity)]

interp(metallicity) ==
    /\ ret = Idle
    /\ ret' = [ op |-> "interp",
                raised |-> AbundanceGetter_interp(getter, metallicity).raised,
                metallicity |-> metallicity,
                value |-> AbundanceGetter_interp(getter, metallicity).value ]
    /\ UNCHANGED <<solver, calc, instance, getter, binning, info>>

---------------------------------------------------------------------------
(* Construction and the specification of the binning operations *)

\* no change_wavelength_bins call is in progress
NotBinning == [pc |-> "idle"]

StarRadius == 10
Gravity == 1

Init ==
    /\ \E ic \in BOOLEAN :
          solver = AtmosphereSolver_init([include_condensation |-> ic])
    /\ calc = TDC_init(StarRadius, Gravity)
    /\ instance \in {"AtmosphereSolver", "TransitDepthCalculator"}
    /\ instance = "TransitDepthCalculator" => solver.arguments.include_condensation
    /\ getter = load_ggchem_files(TRUE, AllFilesExist)
    /\ binning = NotBinning
    /\ ret = Idle
    /\ info = None

SolverBins ==
    /\ instance = "AtmosphereSolver"
    /\ \E bins \in BinArgs : change_wavelength_bins(bins)

CalcBins ==
    /\ instance = "TransitDepthCalculator"
    /\ \E bins \in BinArgs : TDC_change_wavelength_bins(bins)

NextBins == SolverBins \/ CalcBins \/ Discard

SpecBins == Init /\ [][NextBins]_vars

---------------------------------------------------------------------------
(* Species data and the abundance store used by AtmosphereSolver *)

NaN == 0 - 1
IsNaN(x) == x = NaN

Infinity == 1000
IsInf(x) == x = Infinity

MinAbsorption == 1
MinAbundance == 1

mass_data == [sp \in AllSpecies |-> IF sp = "H2" THEN 2 ELSE 18]
polarizability_data == [sp \in AllSpecies |-> IF sp = "H2" THEN 1 ELSE 2]

\* abundance_getter.logZs and abundance_getter.CO_ratios (C/O in tenths)
LogZs == <<0 - 1, 0, 1, 2, 3>>
CO_ratios == <<2, 5, 10, 20>>

\* abundance_getter.get(logZ, CO_ratio): a new (N_T, N_P) grid per species,
\* interpolated for the query; entries may lie below min_abundance
AbundanceGetter_get(logZ, CO_ratio) ==
    [sp \in AllSpecies |->
        [t \in 1..Len(TemperaturesFile) |->
            [p \in 1..Len(PressuresFile) |->
                (logZ + CO_ratio + t + p + mass_data[sp]) % 3]]]

\* index of a grid node
NodeIdx(grid, v) == CHOOSE i \in 1..Len(grid) : grid[i] = v

\* number density P / (k_B T), in units in which it is an integer on the grid
TScale == 6
NumberDensity(P, T) == (P * TScale) \div T

---------------------------------------------------------------------------
(* AtmosphereSolver._validate_params *)

\* variant: only the top layer is compared with the temperature limits
TemperatureInvalid_top_layer(s, T_profile) ==
    T_profile[1] < s.min_temperature \/ T_profile[1] > s.max_temperature

TemperatureInvalid(s, T_profile) ==
    SeqMin(T_profile) < s.min_temperature \/ SeqMax(T_profile) > s.max_temperature

\* variant: the C/O ratio is not compared with the stored grid
validate_params_CO_unchecked(s, T_profile, logZ, CO_ratio, cloudtop_pressure) ==
    IF TemperatureInvalid(s, T_profile) THEN "AtmosphereError"
    ELSE IF logZ # None /\ (Val(logZ) < SeqMin(LogZs) \/ Val(logZ) > SeqMax(LogZs))
    THEN "ValueError"
    ELSE IF ~IsInf(cloudtop_pressure)
            /\ (cloudtop_pressure <= SeqMin(s.P_grid)
                \/ cloudtop_pressure > SeqMax(s.P_grid))
    THEN "ValueError"
    ELSE ""

validate_params(s, T_profile, logZ, CO_ratio, cloudtop_pressure) ==
    IF TemperatureInvalid(s, T_profile) THEN "AtmosphereError"
    ELSE IF logZ # None /\ (Val(logZ) < SeqMin(LogZs) \/ Val(logZ) > SeqMax(LogZs))
    THEN "ValueError"
    ELSE IF CO_ratio # None
            /\ (Val(CO_ratio) < SeqMin(CO_ratios) \/ Val(CO_ratio) > SeqMax(CO_ratios))
    THEN "ValueError"
    ELSE IF ~IsInf(cloudtop_pressure)
            /\ (cloudtop_pressure <= SeqMin(s.P_grid)
                \/ cloudtop_pressure > SeqMax(s.P_grid))
    THEN "ValueError"
    ELSE ""

---------------------------------------------------------------------------
(* AtmosphereSolver._get_abundances_array *)

\* custom_abundances is None, or a record [kind, grids]: kind "dict" maps
\* species to arrays grids[sp][t][p]; any other kind is an unrecognized format
ShapeOf(grid) == <<Len(grid), IF Len(grid) = 0 THEN 0 ELSE Len(grid[1])>>

\* variant: a custom grid is used even when logZ or CO_ratio is given
get_abundances_array_both_allowed(s, logZ, CO_ratio, custom_abundances) ==
    IF custom_abundances = None
    THEN [raised |-> "", abundances |-> AbundanceGetter_get(Val(logZ), Val(CO_ratio))]
    ELSE IF Val(custom_abundances).kind = "dict"
    THEN IF \E key \in DOMAIN Val(custom_abundances).grids :
               ShapeOf(Val(custom_abundances).grids[key]) # <<s.N_T, s.N_P>>
         THEN [raised |-> "ValueError", abundances |-> <<>>]
         ELSE [raised |-> "", abundances |-> Val(custom_abundances).grids]
    ELSE [raised |-> "ValueError", abundances |-> <<>>]

\* kind "dict_of_lists": a dict whose values are nested lists, not arrays
get_abundances_array(s, logZ, CO_ratio, custom_abundances) ==
    IF custom_abundances = None
    THEN [raised |-> "", abundances |-> AbundanceGetter_get(Val(logZ), Val(CO_ratio))]
    ELSE IF logZ # None \/ CO_ratio # None
    THEN [raised |-> "ValueError", abundances |-> <<>>]
    ELSE IF Val(custom_abundances).kind = "dict_of_lists"
    THEN [raised |-> "ValueError", abundances |-> <<>>]
    ELSE IF Val(custom_abundances).kind = "dict"
    THEN IF \E key \in DOMAIN Val(custom_abundances).grids :
               ShapeOf(Val(custom_abundances).grids[key]) # <<s.N_T, s.N_P>>
         THEN [raised |-> "ValueError", abundances |-> <<>>]
         ELSE [raised |-> "", abundances |-> Val(custom_abundances).grids]
    ELSE [raised |-> "ValueError", abundances |-> <<>>]

\* abundances[name][isnan] = min_abundance; abundances[name][< min] = min_abundance
FloorAbundances(abundances, min_abundance) ==
    [name \in DOMAIN abundances |->
        [t \in DOMAIN abundances[name] |->
            [p \in DOMAIN abundances[name][t] |->
                LET x == abundances[name][t][p]
                    y == IF IsNaN(x) THEN min_abundance ELSE x
                IN IF y < min_abundance THEN min_abundance ELSE y]]]

---------------------------------------------------------------------------
(* AtmosphereSolver._get_above_cloud_profiles *)

\* abundances and mean molecular weight of every layer of the profile; the
\* abundances are then cut to the layers above the cloud deck
get_above_cloud_profiles(s, P_profile, T_profile, abundances, above_cloud_cond) ==
    LET full == [name \in DOMAIN abundances |->
                    [i \in 1..Len(P_profile) |->
                        abundances[name][NodeIdx(s.T_grid, T_profile[i])]
                                        [NodeIdx(s.P_grid, P_profile[i])]]]
        mu == [i \in 1..Len(P_profile) |->
                  (IF "H2" \in DOMAIN abundances
                     THEN full["H2"][i] * mass_data["H2"] ELSE 0)
                  + (IF "H2O" \in DOMAIN abundances
                     THEN full["H2O"][i] * mass_data["H2O"] ELSE 0)]
    IN [ atm_abundances |->
            [name \in DOMAIN abundances |-> MaskSeq(full[name], above_cloud_cond)],
         mu_profile |-> mu ]

---------------------------------------------------------------------------
(* The opacity terms.  A coefficient at wavelength w is held in units of      *)
(* w^(-scattering_slope), so that the scattering power law stays an integer. *)

ScatteringSlope == 4

RECURSIVE Pow(_, _)
Pow(x, n) == IF n = 0 THEN 1 ELSE x * Pow(x, n - 1)

ColumnUnit(s, w) == Pow(s.lambda_grid[w], ScatteringSlope)

\* self.absorption_data[species][cond] = min_absorption, for the species of
\* the mixture that have a table
FloorAbsorptionData(s, atm_abundances) ==
    [s EXCEPT !.absorption_data =
        [key \in DOMAIN s.absorption_data |->
            IF key \in DOMAIN atm_abundances
            THEN [t \in DOMAIN s.absorption_data[key] |->
                    [p \in DOMAIN s.absorption_data[key][t] |->
                        [w \in DOMAIN s.absorption_data[key][t][p] |->
                            Max2(s.absorption_data[key][t][p][w], MinAbsorption)]]]
            ELSE s.absorption_data[key]]]

\* sum over species of abundance * interpolated table value, taken from the
\* floored tables sf
get_gas_absorption(sf, atm_abundances, P_profile, T_profile) ==
    [i \in 1..Len(P_profile) |->
        [w \in 1..Len(sf.lambda_grid) |->
            (IF "H2O" \in DOMAIN atm_abundances /\ "H2O" \in DOMAIN sf.absorption_data
             THEN atm_abundances["H2O"][i]
                  * sf.absorption_data["H2O"][NodeIdx(sf.T_grid, T_profile[i])]
                                             [NodeIdx(sf.P_grid, P_profile[i])][w]
             ELSE 0)
            * ColumnUnit(sf, w)]]

get_scattering_absorption(s, atm_abundances, P_profile, T_profile, multiple) ==
    [i \in 1..Len(P_profile) |->
        [w \in 1..Len(s.lambda_grid) |->
            multiple * NumberDensity(P_profile[i], T_profile[i])
            * ( (IF "H2" \in DOMAIN atm_abundances
                 THEN atm_abundances["H2"][i] * polarizability_data["H2"]
                      * polarizability_data["H2"] ELSE 0)
              + (IF "H2O" \in DOMAIN atm_abundances
                 THEN atm_abundances["H2O"][i] * polarizability_data["H2O"]
                      * polarizability_data["H2O"] ELSE 0) )]]

FloorCollisionalData(s, atm_abundances) ==
    [s EXCEPT !.collisional_absorption_data =
        [key \in DOMAIN s.collisional_absorption_data |->
            IF key[1] \in DOMAIN atm_abundances /\ key[2] \in DOMAIN atm_abundances
            THEN [t \in DOMAIN s.collisional_absorption_data[key] |->
                    [w \in DOMAIN s.collisional_absorption_data[key][t] |->
                        Max2(s.collisional_absorption_data[key][t][w], MinAbsorption)]]
            ELSE s.collisional_absorption_data[key]]]

get_collisional_absorption(sf, atm_abundances, P_profile, T_profile) ==
    LET pr == <<"H2", "H2">>
    IN [i \in 1..Len(P_profile) |->
        [w \in 1..sf.N_lambda |->
            (IF pr \in DOMAIN sf.collisional_absorption_data
                /\ "H2" \in DOMAIN atm_abundances
             THEN sf.collisional_absorption_data[pr][NodeIdx(sf.T_grid, T_profile[i])][w]
                  * (atm_abundances["H2"][i] * NumberDensity(P_profile[i], T_profile[i]))
                  * (atm_abundances["H2"][i] * NumberDensity(P_profile[i], T_profile[i]))
             ELSE 0)
            * ColumnUnit(sf, w)]]

AddArrays(x, y) ==
    [i \in DOMAIN x |-> [w \in DOMAIN x[i] |-> x[i][w] + y[i][w]]]

---------------------------------------------------------------------------
(* AtmosphereSolver.compute_params *)

ParamsReturn(a, raised, trace, custom_after, value) ==
    [ op |-> "compute_params",
      raised |-> raised,
      value |-> value,
      trace |-> trace,
      args |-> a,
      custom_abundances_after |-> custom_after ]

\* the caller's custom_abundances after the arrays were floored in place
CustomAfter(a, abundances) ==
    IF a.custom_abundances = None THEN None
    ELSE Some([Val(a.custom_abundances) EXCEPT !.grids = abundances])

\* lines 349-399, entered with the floored abundance arrays
ComputeAboveClouds(s, a, abundances, trace0) ==
    LET custom_after == CustomAfter(a, abundances)
        above_clouds == [i \in 1..Len(a.P_profile) |->
                            a.P_profile[i] < a.cloudtop_pressure]
        prof == get_above_cloud_profiles(s, a.P_profile, a.T_profile,
                                         abundances, above_clouds)
        atm == prof.atm_abundances
        trace1 == Append(trace0, "_get_above_cloud_profiles")
        \* np.interp(log P_quench, log P_profile, log atm_abundances[name])
        quench_fails == \E name \in DOMAIN atm : Len(atm[name]) # Len(a.P_profile)
        P == MaskSeq(a.P_profile, above_clouds)
        T == MaskSeq(a.T_profile, above_clouds)
        zeros == [i \in 1..Len(P) |-> [w \in 1..Len(s.lambda_grid) |-> 0]]
        s1 == IF a.add_gas_absorption THEN FloorAbsorptionData(s, atm) ELSE s
        c1 == IF a.add_gas_absorption
              THEN AddArrays(zeros, get_gas_absorption(s1, atm, P, T)) ELSE zeros
        trace2 == IF a.add_gas_absorption
                  THEN Append(trace1, "_get_gas_absorption") ELSE trace1
        c2 == IF a.add_scattering
              THEN AddArrays(c1, get_scattering_absorption(s1, atm, P, T, 1)) ELSE c1
        trace3 == IF a.add_scattering
                  THEN Append(trace2, "_get_scattering_absorption") ELSE trace2
        s2 == IF a.add_collisional_absorption THEN FloorCollisionalData(s1, atm) ELSE s1
        c3 == IF a.add_collisional_absorption
              THEN AddArrays(c2, get_collisional_absorption(s2, atm, P, T)) ELSE c2
        trace4 == IF a.add_collisional_absorption
                  THEN Append(trace3, "_get_collisional_absorption") ELSE trace3
    IN IF quench_fails
       THEN [solver |-> s,
             ret |-> ParamsReturn(a, "ValueError", trace1, custom_after, <<>>)]
       ELSE IF a.add_H_minus_absorption
       THEN [solver |-> s1,
             ret |-> ParamsReturn(a, "ValueError", trace2, custom_after, <<>>)]
       ELSE IF a.add_scattering /\ a.ri # None
       THEN [solver |-> s1,
             ret |-> ParamsReturn(a, "ValueError", trace2, custom_after, <<>>)]
       ELSE [solver |-> s2,
             ret |-> ParamsReturn(a, "", trace4, custom_after,
                        [ T_profile |-> T,
                          P_profile |-> P,
                          atm_abundances |-> atm,
                          mu_profile |-> prof.mu_profile,
                          absorption_coeff_atm |-> c3,
                          unbinned_wavelengths |-> s.lambda_grid ])]

ComputeParams(s, a) ==
    LET v == validate_params(s, a.T_profile, a.logZ, a.CO_ratio, a.cloudtop_pressure)
        got == get_abundances_array(s, a.logZ, a.CO_ratio, a.custom_abundances)
    IN IF v # ""
       THEN [solver |-> s,
             ret |-> ParamsReturn(a, v, <<"_validate_params">>,
                                  a.custom_abundances, <<>>)]
       ELSE IF got.raised # ""
       THEN [solver |-> s,
             ret |-> ParamsReturn(a, got.raised,
                                  <<"_validate_params", "_get_abundances_array">>,
                                  a.custom_abundances, <<>>)]
       ELSE ComputeAboveClouds(s, a,
                FloorAbundances(got.abundances, MinAbundance),
                <<"_validate_params", "_get_abundances_array">>)

compute_params(a) ==
    /\ ret = Idle
    /\ LET r == ComputeParams(solver, a)
       IN /\ solver' = r.solver
          /\ ret' = r.ret
    /\ UNCHANGED <<calc, instance, getter, binning, info>>

---------------------------------------------------------------------------
(* Arguments offered to compute_params *)

P_profiles == { <<1, 2, 4>>, <<1, 2>> }

Temperatures == {1, 2, 3, 6, 7}

\* isothermal profiles, and profiles whose deepest layer differs from the rest
T_profiles(n) ==
    {[i \in 1..n |-> t] : t \in Temperatures}
    \cup {[i \in 1..n |-> IF i = n THEN tb ELSE 3] : tb \in {1, 6, 7}}

Cloudtops == {0, 1, 2, 4, 5, Infinity}

GoodGrid == [t \in 1..Len(TemperaturesFile) |-> [p \in 1..Len(PressuresFile) |-> t + p]]
DirtyGrid ==
    [t \in 1..Len(TemperaturesFile) |->
        [p \in 1..Len(PressuresFile) |->
            IF t = 1 /\ p = 1 THEN NaN ELSE IF t = p THEN 0 ELSE 2]]
ShortGrid == [t \in 1..Len(TemperaturesFile) |-> <<1, 1>>]

CustomGood == [kind |-> "dict", grids |-> [sp \in AllSpecies |-> GoodGrid]]
CustomDirty == [kind |-> "dict", grids |-> [sp \in AllSpecies |-> DirtyGrid]]
CustomShort ==
    [kind |-> "dict",
     grids |-> [sp \in AllSpecies |-> IF sp = "H2" THEN GoodGrid ELSE ShortGrid]]
CustomList == [kind |-> "list", grids |-> <<>>]
CustomDictOfLists == [kind |-> "dict_of_lists", grids |-> [sp \in AllSpecies |-> GoodGrid]]

\* (logZ, CO_ratio, custom_abundances); the store is queried only with numbers
Compositions ==
    {<<Some(z), Some(5), None>> : z \in {0 - 2, 0 - 1, 0, 3, 4}}
    \cup {<<Some(0), Some(c), None>> : c \in {1, 2, 20, 21}}
    \cup {<<None, None, Some(cu)>> :
             cu \in {CustomGood, CustomDirty, CustomShort, CustomList,
                     CustomDictOfLists}}
    \cup {<<Some(0), None, Some(CustomGood)>>, <<None, Some(5), Some(CustomGood)>>}

\* add_gas_absorption, add_H_minus_absorption, add_scattering,
\* add_collisional_absorption
Switches == BOOLEAN \X BOOLEAN \X BOOLEAN \X BOOLEAN
DefaultSwitches == <<TRUE, FALSE, TRUE, TRUE>>

ParamArgs(P, T, comp, ct, fl, ri) ==
    [ logZ |-> comp[1],
      CO_ratio |-> comp[2],
      T_profile |-> T,
      cloudtop_pressure |-> ct,
      custom_abundances |-> comp[3],
      P_profile |-> P,
      add_gas_absorption |-> fl[1],
      add_scattering |-> fl[3],
      add_collisional_absorption |-> fl[4],
      add_H_minus_absorption |-> fl[2],
      ri |-> ri ]

\* the bin lists used while the forward model is exercised
ForwardBinArgs == { None, Some(<< <<2, 6>>, <<6, LMax>> >>) }

ForwardBins == \E bins \in ForwardBinArgs : change_wavelength_bins(bins)

\* every profile, composition and cloud top, with the default opacity switches
ForwardModel ==
    \E P \in P_profiles, comp \in Compositions, ct \in Cloudtops :
       \E T \in T_profiles(Len(P)) :
          compute_params(ParamArgs(P, T, comp, ct, DefaultSwitches, None))

\* every combination of the opacity switches and ri, on profiles within range
ForwardModelSwitches ==
    \E P \in P_profiles, ct \in {2, Infinity}, fl \in Switches, ri \in {None, Some(1)},
       comp \in {<<Some(0), Some(5), None>>, <<None, None, Some(CustomDirty)>>} :
          compute_params(ParamArgs(P, [i \in 1..Len(P) |-> 3], comp, ct, fl, ri))

InitSolver == Init /\ instance = "AtmosphereSolver"

Next == ForwardBins \/ ForwardModel \/ ForwardModelSwitches \/ Discard

Spec == InitSolver /\ [][Next]_vars

---------------------------------------------------------------------------
(* TransitDepthCalculator: the terms of the absorption coefficient.  The    *)
(* caller's abundances are arrays abundances[species][P index][T index].   *)
(* Arithmetic is fixed-point on integers, rounding down.                    *)

\* (8 pi / 3) (2 pi / lambda)^4 in model units
ScatScale == 1296
ScatPrefactor(lambda) == ScatScale \div Pow(lambda, 4)

TDC_Abundance(c, abundances, sp, P, T) ==
    abundances[sp][NodeIdx(c.P_grid, P)][NodeIdx(c.T_grid, T)]

\* value at layer (P, T) of the term built on the grid by get_gas_absorption
TDC_get_gas_absorption(c, abundances, w, P, T) ==
    IF "H2O" \in DOMAIN abundances /\ "H2O" \in DOMAIN c.absorption_data
    THEN c.absorption_data["H2O"][w][NodeIdx(c.P_grid, P)][NodeIdx(c.T_grid, T)]
         * TDC_Abundance(c, abundances, "H2O", P, T)
    ELSE 0

TDC_get_scattering_absorption(c, abundances, w, P, T) ==
    ( (IF "H2" \in DOMAIN abundances
       THEN TDC_Abundance(c, abundances, "H2", P, T)
            * polarizability_data["H2"] * polarizability_data["H2"] ELSE 0)
    + (IF "H2O" \in DOMAIN abundances
       THEN TDC_Abundance(c, abundances, "H2O", P, T)
            * polarizability_data["H2O"] * polarizability_data["H2O"] ELSE 0) )
    * ScatPrefactor(c.lambda_grid[w]) * NumberDensity(P, T)

TDC_get_collisional_absorption(c, abundances, w, P, T) ==
    IF <<"H2", "H2">> \in DOMAIN c.collisional_absorption_data
       /\ "H2" \in DOMAIN abundances
    THEN c.collisional_absorption_data[<<"H2", "H2">>][w][NodeIdx(c.T_grid, T)]
         * (TDC_Abundance(c, abundances, "H2", P, T) * NumberDensity(P, T))
         * (TDC_Abundance(c, abundances, "H2", P, T) * NumberDensity(P, T))
    ELSE 0

\* absorption_coeff_atm[w][layer], lines 132-136
TDC_absorption_coeff_atm(c, a, P, T) ==
    [w \in 1..c.N_lambda |->
        [i \in 1..Len(P) |->
            TDC_get_gas_absorption(c, a.abundances, w, P[i], T[i])
            + (IF a.add_scattering
               THEN a.scattering_factor
                    * TDC_get_scattering_absorption(c, a.abundances, w, P[i], T[i])
               ELSE 0)
            + (IF a.add_collisional_absorption
               THEN TDC_get_collisional_absorption(c, a.abundances, w, P[i], T[i])
               ELSE 0)]]

---------------------------------------------------------------------------
(* TransitDepthCalculator.get_above_cloud_r_and_dr *)

\* k_B / amu in model units
ScaleHeightUnit == 60

RECURSIVE CumSum(_, _)
CumSum(s, i) == IF i = 0 THEN 0 ELSE s[i] + CumSum(s, i - 1)

TDC_get_above_cloud_r_and_dr(c, P, T, abundances, planet_radius, P_cond) ==
    LET mu == [i \in 1..Len(P) |->
                  (IF "H2" \in DOMAIN abundances
                   THEN TDC_Abundance(c, abundances, "H2", P[i], T[i]) * mass_data["H2"]
                   ELSE 0)
                + (IF "H2O" \in DOMAIN abundances
                   THEN TDC_Abundance(c, abundances, "H2O", P[i], T[i]) * mass_data["H2O"]
                   ELSE 0)]
        dr == [i \in 1..Len(P) |->
                  IF i = 1
                  THEN (ScaleHeightUnit * T[1]) \div (mu[1] * c.g)
                  ELSE ((P[i] - P[i - 1]) * ScaleHeightUnit * T[i])
                          \div (P[i] * mu[i] * c.g)]
        radius_with_atm == CumSum(dr, Len(dr)) + planet_radius
        radii == [i \in 1..Len(P) |-> radius_with_atm - CumSum(dr, i)]
    IN [ dr |-> dr, radii |-> <<radius_with_atm>> \o MaskSeq(radii, P_cond) ]

---------------------------------------------------------------------------
(* Line-of-sight optical depth and the transit depth *)

RECURSIVE Bisect(_, _, _)
Bisect(n, lo, hi) ==
    IF lo = hi THEN lo
    ELSE LET mid == (lo + hi + 1) \div 2
         IN IF mid * mid <= n THEN Bisect(n, mid, hi) ELSE Bisect(n, lo, mid - 1)

\* square root, rounded down
ISqrt(n) == Bisect(n, 0, n)

\* tau[i]: the ray with impact parameter radii[i] crosses the shells k < i;
\* its path in shell k is 2 (sqrt(r_k^2 - r_i^2) - sqrt(r_(k+1)^2 - r_i^2))
get_line_of_sight_tau(coeff_w, radii) ==
    [i \in 1..Len(coeff_w) |->
        SumSeq([k \in 1..(i - 1) |->
            coeff_w[k] * 2
            * ( ISqrt(radii[k] * radii[k] - radii[i] * radii[i])
              - ISqrt(radii[k + 1] * radii[k + 1] - radii[i] * radii[i]) )])]

\* 1 - exp(-tau) as a fraction of FracOne: 0 at tau = 0, increasing, below 1
FracOne == 100
TauUnit == 1000
\* variant: the transmitted fraction exp(-tau) is used
absorption_fraction_transmitted(tau) == (FracOne * TauUnit) \div (tau + TauUnit)

absorption_fraction(tau) == FracOne - ((FracOne * TauUnit) \div (tau + TauUnit))

\* transit depth at every wavelength of the calculator's grid, in units of
\* 1 / (FracOne * star_radius^2): lines 123-144
TDC_transit_depths(c, a) ==
    LET above_clouds == [i \in 1..Len(a.P) |-> a.P[i] < a.cloudtop_pressure]
        rdr == TDC_get_above_cloud_r_and_dr(c, a.P, a.T, a.abundances,
                                            a.planet_radius, above_clouds)
        radii == rdr.radii
        P == MaskSeq(a.P, above_clouds)
        T == MaskSeq(a.T, above_clouds)
        dr == MaskSeq(rdr.dr, above_clouds)
        coeff == TDC_absorption_coeff_atm(c, a, P, T)
    IN [w \in 1..c.N_lambda |->
          LET tau == get_line_of_sight_tau(coeff[w], radii)
          IN a.planet_radius * a.planet_radius * FracOne
             + 2 * SumSeq([i \in 1..Len(P) |->
                              absorption_fraction(tau[i]) * radii[i + 1] * dr[i]])]

---------------------------------------------------------------------------
(* TransitDepthCalculator.compute_depths *)

\* np.mean over the selected entries: <<sum, count>>, <<0, 0>> for none (nan)
MeanOf(values, cond) ==
    LET sel == MaskSeq(values, cond) IN <<SumSeq(sel), Len(sel)>>

\* np.logical_and(lambda_grid >= start, lambda_grid < end)
InBin(w, bin) == w >= bin[1] /\ w < bin[2]

TDC_compute_depths_value(c, a) ==
    LET transit_depths == TDC_transit_depths(c, a)
    IN IF c.wavelength_bins # None
       THEN LET bins == Val(c.wavelength_bins)
                cond(k) == [j \in 1..Len(c.lambda_grid) |->
                               InBin(c.lambda_grid[j], bins[k])]
            IN [ binned |-> TRUE,
                 wavelengths |-> [k \in 1..Len(bins) |-> MeanOf(c.lambda_grid, cond(k))],
                 depths |-> [k \in 1..Len(bins) |-> MeanOf(transit_depths, cond(k))] ]
       ELSE [ binned |-> FALSE,
              wavelengths |-> c.lambda_grid,
              depths |-> transit_depths ]

TDC_compute_depths(a) ==
    /\ ret = Idle
    /\ ret' = [ op |-> "compute_depths",
                raised |-> "",
                value |-> TDC_compute_depths_value(calc, a),
                args |-> a ]
    /\ UNCHANGED <<solver, calc, instance, getter, binning, info>>

---------------------------------------------------------------------------
(* The calculator as the retrieval uses it: built, binned once, evaluated *)

TDC_Abundances ==
    { [sp \in AllSpecies |->
          [p \in 1..Len(PressuresFile) |->
              [t \in 1..Len(TemperaturesFile) |-> IF sp = "H2" THEN 1 + ((p + t) % 2) ELSE 1]]],
      [sp \in AllSpecies |->
          [p \in 1..Len(PressuresFile) |->
              [t \in 1..Len(TemperaturesFile) |-> IF sp = "H2" THEN 2 ELSE 0]]] }

\* cloud tops below the first layer: some layer always lies above the deck
DepthArgs ==
    { [ abundances |-> ab,
        P |-> P,
        T |-> [i \in 1..Len(P) |-> t],
        cloudtop_pressure |-> ct,
        add_scattering |-> sc,
        add_collisional_absorption |-> co,
        scattering_factor |-> 1,
        planet_radius |-> 100 ] :
        P \in P_profiles, t \in {3, 6}, ab \in TDC_Abundances,
        sc \in BOOLEAN, co \in BOOLEAN, ct \in {2, 4, Infinity} }

CalcBinOnce ==
    /\ ~calc.wavelength_rebinned
    /\ \E bins \in BinArgs : TDC_change_wavelength_bins(bins)

CalcDepths == \E a \in DepthArgs : TDC_compute_depths(a)

InitCalc == Init /\ instance = "TransitDepthCalculator"

NextCalc == CalcBinOnce \/ CalcDepths \/ Discard

SpecCalc == InitCalc /\ [][NextCalc]_vars

---------------------------------------------------------------------------
(* Properties of wavelength binning *)

IsBinsCall(cls) ==
    /\ ret.op = "change_wavelength_bins"
    /\ ret.cls = cls

NativeInside(bin) ==
    {w \in {WavelengthsFile[i] : i \in 1..NLambda} : bin[1] < w /\ w < bin[2]}

NativeIdx(w) == CHOOSE j \in 1..NLambda : WavelengthsFile[j] = w

Elems(s) == {s[i] : i \in 1..Len(s)}

\* C1: a call of change_wavelength_bins with a bin list (not None) on an
\* instance that is already binned raises NotImplementedError, for
\* TransitDepthCalculator and for AtmosphereSolver alike.
C1_RebinRaisesNotImplemented ==
    (/\ ret.op = "change_wavelength_bins"
     /\ ret.bins # None
     /\ ret.rebinned_before)
    => ret.raised = "NotImplementedError"

\* C7: on an unbinned solver, change_wavelength_bins(bins) raises ValueError
\* and leaves the solver unbinned if some bin has start or end outside
\* [min, max] of the grid or has no grid wavelength strictly between start and
\* end; otherwise it succeeds, and exactly the bins holding 1 to 5 grid points
\* are warned about (and accepted).
C7_BinValidation ==
    (/\ IsBinsCall("AtmosphereSolver")
     /\ ret.bins # None
     /\ ~ret.rebinned_before)
    => LET bins == Val(ret.bins)
           bad(b) == \/ b[1] < LMin \/ b[1] > LMax
                     \/ b[2] < LMin \/ b[2] > LMax
                     \/ NativeInside(b) = {}
       IN IF \E k \in 1..Len(bins) : bad(bins[k])
          THEN /\ ret.raised = "ValueError"
               /\ ~solver.wavelength_rebinned
          ELSE /\ ret.raised = ""
               /\ solver.wavelength_rebinned
               /\ solver.wavelength_bins = ret.bins
               /\ \A k \in 1..Len(bins) :
                     (Cardinality(NativeInside(bins[k])) \in 1..5)
                        <=> (bins[k] \in Elems(ret.warned))

\* C7 witness: a bin list accepted on an unbinned solver with a warning for
\* one bin and none for another
C7_Witness ==
    /\ IsBinsCall("AtmosphereSolver")
    /\ ret.bins # None
    /\ ~ret.rebinned_before
    /\ ret.raised = ""
    /\ Len(ret.warned) = 1
    /\ Len(Val(ret.bins)) = 2

\* C8: change_wavelength_bins(None) always leaves the solver as freshly
\* constructed (native grid and tables, not rebinned, no bins), and a
\* successful binning with B gives the tables of a fresh solver binned with B,
\* whatever calls came before.
C8_ResetRestores ==
    IsBinsCall("AtmosphereSolver") =>
       /\ ret.bins = None =>
             /\ ret.raised = ""
             /\ solver.lambda_grid = WavelengthsFile
             /\ solver.N_lambda = NLambda
             /\ solver.absorption_data = AbsorptionFile
             /\ solver.collisional_absorption_data = CollisionalFile
             /\ solver.wavelength_rebinned = FALSE
             /\ solver.wavelength_bins = None
       /\ (ret.bins # None /\ ret.raised = "") =>
             solver = ApplyBins(AtmosphereSolver_init(solver.arguments),
                                Val(ret.bins))

\* C8 witness: None passed to a solver that was binned
C8_Witness ==
    /\ IsBinsCall("AtmosphereSolver")
    /\ ret.bins = None
    /\ ret.rebinned_before

\* C9: in every state lambda_grid is a strictly increasing subsequence of the
\* native grid, N_lambda is its length, every absorption table and every
\* collisional table has exactly the native entries of the retained
\* wavelengths along its wavelength axis, and after a successful binning the
\* retained wavelengths are exactly the native wavelengths lying strictly
\* inside at least one bin (start < w < end).
C9_SolverGrid ==
    LET g == solver.lambda_grid
    IN /\ \A i \in 1..(Len(g) - 1) : g[i] < g[i + 1]
       /\ Elems(g) \subseteq Elems(WavelengthsFile)
       /\ solver.N_lambda = Len(g)
       /\ \A key \in DOMAIN solver.absorption_data :
          \A t \in 1..solver.N_T : \A p \in 1..solver.N_P :
             /\ Len(solver.absorption_data[key][t][p]) = solver.N_lambda
             /\ \A i \in 1..Len(g) :
                   solver.absorption_data[key][t][p][i]
                      = AbsorptionFile[key][t][p][NativeIdx(g[i])]
       /\ \A key \in DOMAIN solver.collisional_absorption_data :
          \A t \in 1..solver.N_T :
             /\ Len(solver.collisional_absorption_data[key][t]) = solver.N_lambda
             /\ \A i \in 1..Len(g) :
                   solver.collisional_absorption_data[key][t][i]
                      = CollisionalFile[key][t][NativeIdx(g[i])]
       /\ solver.wavelength_rebinned =>
             Elems(g) = UNION {NativeInside(b) : b \in Elems(Val(solver.wavelength_bins))}

C9_CalcGrid ==
    LET g == calc.lambda_grid
    IN /\ \A i \in 1..(Len(g) - 1) : g[i] < g[i + 1]
       /\ Elems(g) \subseteq Elems(WavelengthsFile)
       /\ calc.N_lambda = Len(g)
       /\ \A key \in DOMAIN calc.absorption_data :
             /\ Len(calc.absorption_data[key]) = calc.N_lambda
             /\ \A i \in 1..Len(g) :
                   calc.absorption_data[key][i]
                      = TDC_AbsorptionFile[key][NativeIdx(g[i])]
       /\ \A key \in DOMAIN calc.collisional_absorption_data :
             /\ Len(calc.collisional_absorption_data[key]) = calc.N_lambda
             /\ \A i \in 1..Len(g) :
                   calc.collisional_absorption_data[key][i]
                      = TDC_CollisionalFile[key][NativeIdx(g[i])]
       /\ (calc.wavelength_rebinned /\ calc.wavelength_bins # None) =>
             Elems(g) = UNION {NativeInside(b) : b \in Elems(Val(calc.wavelength_bins))}

---------------------------------------------------------------------------
(* Properties of the forward model (compute_params) *)

IsParamsCall == ret.op = "compute_params"

\* the call was made with the default opacity switches, no ri, and a
\* composition taken from the abundance store
DefaultCall ==
    /\ ret.args.custom_abundances = None
    /\ ret.args.add_gas_absorption
    /\ ~ret.args.add_H_minus_absorption
    /\ ret.args.add_scattering
    /\ ret.args.add_collisional_absorption
    /\ ret.args.ri = None

\* the call got past _validate_params
Validated == ~(ret.raised # "" /\ ret.trace = <<"_validate_params">>)

LayersAbove(P, cloudtop) == {i \in 1..Len(P) : P[i] < cloudtop}

\* C2: a compute_params call accepted by _validate_params whose finite
\* cloudtop_pressure masks at least one layer of P_profile completes, and the
\* returned P_profile, T_profile, atm_abundances and absorption_coeff_atm hold
\* exactly the layers with P < cloudtop_pressure.
C2_CloudMaskingCompletes ==
    (/\ IsParamsCall
     /\ DefaultCall
     /\ Validated
     /\ ~IsInf(ret.args.cloudtop_pressure)
     /\ \E i \in 1..Len(ret.args.P_profile) :
           ret.args.P_profile[i] >= ret.args.cloudtop_pressure)
    => LET above == [i \in 1..Len(ret.args.P_profile) |->
                        ret.args.P_profile[i] < ret.args.cloudtop_pressure]
           kept == Cardinality(LayersAbove(ret.args.P_profile,
                                           ret.args.cloudtop_pressure))
       IN /\ ret.raised = ""
          /\ ret.value.P_profile = MaskSeq(ret.args.P_profile, above)
          /\ ret.value.T_profile = MaskSeq(ret.args.T_profile, above)
          /\ Len(ret.value.absorption_coeff_atm) = kept
          /\ \A name \in DOMAIN ret.value.atm_abundances :
                Len(ret.value.atm_abundances[name]) = kept

StructureOrOpacity ==
    { "_get_above_cloud_profiles", "_get_gas_absorption",
      "_get_scattering_absorption", "_get_collisional_absorption" }

\* C4: whenever compute_params raises, it raises before the structure solve
\* and before any opacity term is computed (stated for calls without a cloud
\* deck, where the profile arrays keep their length).
C4_ErrorsBeforeStructure ==
    (IsParamsCall /\ ret.raised # "" /\ IsInf(ret.args.cloudtop_pressure))
    => \A k \in 1..Len(ret.trace) : ret.trace[k] \notin StructureOrOpacity

\* C5: a compute_params call leaves absorption_data,
\* collisional_absorption_data, T_grid, P_grid and lambda_grid of the solver
\* and the caller's custom_abundances arrays as they were.
C5_ParamsLeavesInputs ==
    [][ (ret'.op = "compute_params") =>
           /\ solver'.absorption_data = solver.absorption_data
           /\ solver'.collisional_absorption_data = solver.collisional_absorption_data
           /\ solver'.T_grid = solver.T_grid
           /\ solver'.P_grid = solver.P_grid
           /\ solver'.lambda_grid = solver.lambda_grid
           /\ ret'.custom_abundances_after = ret'.args.custom_abundances ]_vars

\* C6: compute_params with cloudtop_pressure equal to the minimum of P_grid
\* and otherwise valid arguments is accepted and returns no layer above the
\* cloud deck.
C6_CloudtopAtMinPressure ==
    (/\ IsParamsCall
     /\ DefaultCall
     /\ ret.args.cloudtop_pressure = SeqMin(solver.P_grid)
     /\ ret.args.logZ = Some(0)
     /\ ret.args.CO_ratio = Some(5)
     /\ \A i \in 1..Len(ret.args.T_profile) : ret.args.T_profile[i] = 3)
    => /\ ret.raised = ""
       /\ ret.value.P_profile = <<>>

\* C10: compute_params raises AtmosphereError, and returns nothing, when any
\* layer of T_profile is below max(min(T_grid), minimum temperature of the
\* abundance store) or above max(T_grid); a profile with every layer inside
\* these bounds, both ends included, does not raise AtmosphereError.
C10_TemperatureCheck ==
    IsParamsCall =>
       LET T == ret.args.T_profile
           lo == Max2(SeqMin(TemperaturesFile),
                      IF solver.arguments.include_condensation THEN 3 ELSE 1)
           hi == SeqMax(TemperaturesFile)
           outside == \E i \in 1..Len(T) : T[i] < lo \/ T[i] > hi
       IN IF outside
          THEN /\ ret.raised = "AtmosphereError"
               /\ ret.trace = <<"_validate_params">>
               /\ ret.value = <<>>
          ELSE ret.raised # "AtmosphereError"

\* C10 witness: only the deepest layer is hotter than the grid, by one unit,
\* and the call raised AtmosphereError
C10_Witness ==
    /\ IsParamsCall
    /\ ret.raised = "AtmosphereError"
    /\ Len(ret.args.T_profile) = 3
    /\ ret.args.T_profile[1] = 3
    /\ ret.args.T_profile[3] = SeqMax(TemperaturesFile) + 1

---------------------------------------------------------------------------
(* Properties of TransitDepthCalculator.compute_depths *)

\* indices of the native wavelengths w with start <= w < end
NativeFrom(bin) == {j \in 1..NLambda : bin[1] <= WavelengthsFile[j] /\ WavelengthsFile[j] < bin[2]}

\* C3: compute_depths on a binned calculator returns one entry per bin; its
\* depth is the mean of the unbinned transit depths over all native
\* wavelengths w with start <= w < end, a wavelength equal to the bin's start
\* included, and its wavelength is the mean of those native wavelengths.
C3_BinnedDepthIsNativeMean ==
    (/\ ret.op = "compute_depths"
     /\ calc.wavelength_rebinned
     /\ calc.wavelength_bins # None)
    => LET bins == Val(calc.wavelength_bins)
           native == TDC_transit_depths(TDC_init(calc.star_radius, calc.g), ret.args)
           member(k) == [j \in 1..NLambda |-> j \in NativeFrom(bins[k])]
       IN /\ Len(ret.value.depths) = Len(bins)
          /\ Len(ret.value.wavelengths) = Len(bins)
          /\ \A k \in 1..Len(bins) :
                NativeFrom(bins[k]) # {} =>
                   LET want == MeanOf(native, member(k))
                       got == ret.value.depths[k]
                       wantw == MeanOf(WavelengthsFile, member(k))
                       gotw == ret.value.wavelengths[k]
                   IN /\ got[2] > 0
                      /\ got[1] * want[2] = want[1] * got[2]
                      /\ gotw[1] * wantw[2] = wantw[1] * gotw[2]

---------------------------------------------------------------------------
(* Range checks of compute_params *)

\* logZ, CO_ratio or a finite cloud top of the call lies outside the stored
\* grid (cloud top: below the smallest or above the largest tabulated pressure)
ParamOutOfRange ==
    \/ /\ ret.args.logZ # None
       /\ \/ Val(ret.args.logZ) < SeqMin(LogZs)
          \/ Val(ret.args.logZ) > SeqMax(LogZs)
    \/ /\ ret.args.CO_ratio # None
       /\ \/ Val(ret.args.CO_ratio) < SeqMin(CO_ratios)
          \/ Val(ret.args.CO_ratio) > SeqMax(CO_ratios)
    \/ /\ ~IsInf(ret.args.cloudtop_pressure)
       /\ \/ ret.args.cloudtop_pressure < SeqMin(PressuresFile)
          \/ ret.args.cloudtop_pressure > SeqMax(PressuresFile)

TemperaturesInRange ==
    \A i \in 1..Len(ret.args.T_profile) :
       /\ ret.args.T_profile[i] >= solver.min_temperature
       /\ ret.args.T_profile[i] <= solver.max_temperature

\* C11 as stated: compute_params raises ValueError whenever logZ, CO_ratio or
\* a finite cloudtop_pressure is outside its stored bounds.
C11_OutOfRangeIsValueError ==
    (IsParamsCall /\ ParamOutOfRange) => ret.raised = "ValueError"

\* C11 amended: a compute_params call with logZ, CO_ratio or a finite
\* cloudtop_pressure outside its stored bounds never returns a result; it
\* raises ValueError in _validate_params when the temperature profile is
\* within bounds, and AtmosphereError when it is not.
C11_OutOfRangeRejected ==
    (IsParamsCall /\ ParamOutOfRange)
    => /\ ret.value = <<>>
       /\ ret.trace = <<"_validate_params">>
       /\ ret.raised = (IF TemperaturesInRange THEN "ValueError" ELSE "AtmosphereError")

\* C11 witness: a C/O ratio above the stored grid, everything else in range,
\* rejected with ValueError
C11_Witness ==
    /\ IsParamsCall
    /\ TemperaturesInRange
    /\ ret.args.CO_ratio # None
    /\ Val(ret.args.CO_ratio) > SeqMax(CO_ratios)
    /\ ret.args.logZ = Some(0)
    /\ IsInf(ret.args.cloudtop_pressure)
    /\ ret.raised = "ValueError"

---------------------------------------------------------------------------
(* Custom abundances *)

\* the custom_abundances of the call cannot be used: logZ or CO_ratio is also
\* given, or it is a dict with an entry that is no (N_T, N_P) array, or it is
\* neither a file name nor a dict
CustomUnusable ==
    LET cu == Val(ret.args.custom_abundances)
    IN \/ ret.args.logZ # None
       \/ ret.args.CO_ratio # None
       \/ cu.kind # "dict"
       \/ \E key \in DOMAIN cu.grids :
             \/ Len(cu.grids[key]) # Len(TemperaturesFile)
             \/ \E t \in 1..Len(cu.grids[key]) :
                   Len(cu.grids[key][t]) # Len(PressuresFile)

\* C12 as stated: with custom_abundances supplied, compute_params raises
\* ValueError whenever logZ or CO_ratio is also given or the custom value is
\* malformed.
C12_CustomUnusableIsValueError ==
    (IsParamsCall /\ ret.args.custom_abundances # None /\ CustomUnusable)
    => ret.raised = "ValueError"

\* C12 amended: with custom_abundances supplied, an unusable value makes the
\* call fail without a result, with ValueError when the temperature profile is
\* within bounds (AtmosphereError otherwise); a usable one, with valid profile
\* and no cloud deck, gives atm_abundances read from the custom grid (floored
\* at min_abundance) instead of the abundance store.
C12_CustomAbundances ==
    (IsParamsCall /\ ret.args.custom_abundances # None)
    => LET cu == Val(ret.args.custom_abundances)
           floored(x) == IF IsNaN(x) \/ x < MinAbundance THEN MinAbundance ELSE x
       IN IF CustomUnusable
          THEN /\ ret.value = <<>>
               /\ ret.raised = (IF TemperaturesInRange THEN "ValueError"
                                ELSE "AtmosphereError")
          ELSE (/\ TemperaturesInRange
                /\ IsInf(ret.args.cloudtop_pressure)
                /\ ~ret.args.add_H_minus_absorption
                /\ (ret.args.add_scattering => ret.args.ri = None))
               => /\ ret.raised = ""
                  /\ DOMAIN ret.value.atm_abundances = DOMAIN cu.grids
                  /\ \A name \in DOMAIN cu.grids :
                     \A i \in 1..Len(ret.args.P_profile) :
                        ret.value.atm_abundances[name][i]
                           = floored(cu.grids[name]
                                       [NodeIdx(TemperaturesFile, ret.args.T_profile[i])]
                                       [NodeIdx(PressuresFile, ret.args.P_profile[i])])

\* C12 witness: a dict with one array of the wrong shape, logZ and CO_ratio
\* None, rejected with ValueError after the range checks passed
C12_Witness ==
    /\ IsParamsCall
    /\ ret.args.custom_abundances = Some(CustomShort)
    /\ ret.args.logZ = None
    /\ ret.args.CO_ratio = None
    /\ ret.raised = "ValueError"
    /\ ret.trace = <<"_validate_params", "_get_abundances_array">>

---------------------------------------------------------------------------
(* Whole-range bin and zero absorption *)

IsDepthsCall == ret.op = "compute_depths"

\* C13: after binning with the single bin (min(lambda_grid), max(lambda_grid))
\* compute_depths returns one depth, the mean of the unbinned depths over all
\* wavelengths of the native grid.
C13_WholeRangeBinIsNativeMean ==
    (/\ IsDepthsCall
     /\ calc.wavelength_rebinned
     /\ calc.wavelength_bins = Some(<< <<LMin, LMax>> >>))
    => LET native == TDC_transit_depths(TDC_init(calc.star_radius, calc.g), ret.args)
           got == ret.value.depths[1]
       IN /\ Len(ret.value.depths) = 1
          /\ got[2] > 0
          /\ got[1] * NLambda = SumSeq(native) * got[2]

\* the absorption coefficient of the call is zero at every layer above the
\* cloud deck and at every wavelength of the calculator's grid
ZeroAbsorption ==
    LET above == [i \in 1..Len(ret.args.P) |-> ret.args.P[i] < ret.args.cloudtop_pressure]
        coeff == TDC_absorption_coeff_atm(calc, ret.args,
                                          MaskSeq(ret.args.P, above),
                                          MaskSeq(ret.args.T, above))
    IN \A w \in 1..Len(coeff) : \A i \in 1..Len(coeff[w]) : coeff[w][i] = 0

\* C14: when the absorption coefficient is zero at every layer and wavelength,
\* compute_depths returns exactly (planet_radius / star_radius)^2 at every
\* wavelength (depths are held in units of 1 / (FracOne * star_radius^2)), and
\* so is every mean over a non-empty bin.
C14_ZeroAbsorptionDepth ==
    (IsDepthsCall /\ ZeroAbsorption)
    => LET opaque == ret.args.planet_radius * ret.args.planet_radius * FracOne
       IN IF ret.value.binned
          THEN \A k \in 1..Len(ret.value.depths) :
                  ret.value.depths[k][1] = opaque * ret.value.depths[k][2]
          ELSE /\ Len(ret.value.depths) = NLambda
               /\ \A w \in 1..Len(ret.value.depths) : ret.value.depths[w] = opaque

\* C14 witness: an unbinned evaluation of three layers with no absorber, no
\* scattering and no collisional absorption
C14_Witness ==
    /\ IsDepthsCall
    /\ ZeroAbsorption
    /\ ~ret.value.binned
    /\ Len(ret.args.P) = 3
    /\ IsInf(ret.args.cloudtop_pressure)
    /\ calc.N_lambda = NLambda

---------------------------------------------------------------------------
(* The abundance store on its own: any set of at least two of the files    *)
(* may be on disk, and the client interpolates at metallicities below,     *)
(* at, between and above the stored ones.                                  *)

FilePatterns ==
    {f \in [1..NFiles -> BOOLEAN] : Cardinality({i \in 1..NFiles : f[i]}) >= 2}

StoreQueries ==
    {Exp10(k) : k \in (0 - 2)..(NFiles - 1)} \cup {Normalize(15, 0 - 1), Normalize(3, 0)}

InitStore ==
    /\ solver = AtmosphereSolver_init([include_condensation |-> TRUE])
    /\ calc = TDC_init(StarRadius, Gravity)
    /\ instance = "AbundanceGetter"
    /\ \E ic \in BOOLEAN : \E f \in FilePatterns :
          getter = load_ggchem_files(ic, f)
    /\ binning = NotBinning
    /\ ret = Idle
    /\ info = None

StoreInterp == \E m \in StoreQueries : interp(m)

NextStore == StoreInterp \/ Discard

SpecStore == InitStore /\ [][NextStore]_vars

IsStoreGrid(a) ==
    /\ DOMAIN a = 1..StoreShape[1]
    /\ \A t \in DOMAIN a : DOMAIN a[t] = 1..StoreShape[2]

OutsideStore(m) ==
    \/ \A i \in 1..Len(getter.metallicities) : FLt(m, getter.metallicities[i])
    \/ \A i \in 1..Len(getter.metallicities) : FLt(getter.metallicities[i], m)

\* C15: interp fails with the out-of-range ValueError for a metallicity
\* below the smallest or above the largest stored one, and otherwise
\* returns one grid for every species of the stored tables
C15_InterpBounds ==
    ret.op = "interp" =>
        IF OutsideStore(ret.metallicity)
        THEN ret.raised = "ValueError" /\ ret.value = <<>>
        ELSE /\ ret.raised = ""
             /\ \A i \in 1..Len(getter.abundances) :
                   DOMAIN ret.value = DOMAIN getter.abundances[i]
             /\ \A sp \in DOMAIN ret.value : IsStoreGrid(ret.value[sp])

\* an interpolation strictly between two stored metallicities of a store
\* with a file missing has returned
C15_Witness ==
    /\ ret.op = "interp"
    /\ ret.raised = ""
    /\ Len(getter.metallicities) < NFiles
    /\ ~OutsideStore(ret.metallicity)
    /\ \A i \in 1..Len(getter.metallicities) :
          getter.metallicities[i] # ret.metallicity
    /\ DOMAIN ret.value = AllSpecies

\* C16: interpolating at a stored metallicity returns exactly the table
\* stored for it
C16_GridPointReturnsStored ==
    ret.op = "interp" =>
        \A i \in 1..Len(getter.metallicities) :
            getter.metallicities[i] = ret.metallicity =>
                /\ ret.raised = ""
                /\ ret.value = getter.abundances[i]

---------------------------------------------------------------------------
(* A failing binning call of the solver *)

\* C20: a change_wavelength_bins call of the solver that fails validation
\* with ValueError leaves lambda_grid, N_lambda, absorption_data,
\* collisional_absorption_data, wavelength_rebinned and wavelength_bins as
\* they were before the call
C20_FailedBinsLeavesSolver ==
    [][(/\ ret'.op = "change_wavelength_bins"
        /\ ret'.cls = "AtmosphereSolver"
        /\ ret'.raised = "ValueError")
       => /\ solver'.lambda_grid = solver.lambda_grid
          /\ solver'.N_lambda = solver.N_lambda
          /\ solver'.absorption_data = solver.absorption_data
          /\ solver'.collisional_absorption_data = solver.collisional_absorption_data
          /\ solver'.wavelength_rebinned = solver.wavelength_rebinned
          /\ solver'.wavelength_bins = solver.wavelength_bins]_vars

---------------------------------------------------------------------------
(* FitInfo (src/fit_info.py) *)

FitParam(value, low_guess, high_guess, low_lim, high_lim) ==
    [ value |-> value, low_guess |-> low_guess, high_guess |-> high_guess,
      low_lim |-> low_lim, high_lim |-> high_lim ]

\* FitParam.within_limits
FitParam_within_limits(param, value) ==
    value > param.low_lim /\ value < param.high_lim

\* FitInfo.within_limits, for an array of the right length
FitInfo_within_limits(fit_info, array) ==
    \A i \in 1..Len(fit_info.fit_params) :
        FitParam_within_limits(fit_info.all_params[fit_info.fit_params[i]], array[i])

\* FitInfo.interpret_param_array, for an array of the right length: the loop
\* over fit_params assigns result[key] in order, so the last entry of a name
\* that is listed more than once is the one that stays
interpret_param_array(fit_info, array) ==
    [key \in DOMAIN fit_info.all_params |->
        LET listed == {i \in 1..Len(fit_info.fit_params) : fit_info.fit_params[i] = key}
        IN IF listed # {}
           THEN array[CHOOSE i \in listed : \A j \in listed : j <= i]
           ELSE fit_info.all_params[key].value]

\* FitInfo.generate_rand_param_arrays: the first walker has the fiducial values
FiducialWalker(fit_info) ==
    [i \in 1..Len(fit_info.fit_params) |->
        fit_info.all_params[fit_info.fit_params[i]].value]

---------------------------------------------------------------------------
(* Retriever (src/retrieve.py).  Logarithmic parameters are in units of    *)
(* log10(2).                                                               *)

\* pressures of the profile built by ln_prob: low_P, high_P and num_P
low_P == 1
num_P == 3
high_P == low_P * Pow2(num_P - 1)

\* np.logspace(np.log10(low_P), np.log10(high_P), num_P)
LogSpace == [i \in 1..num_P |-> low_P * Pow2(i - 1)]

\* the smallest integer not below a non-negative float
Ceil(a) == IF FromInt(Floor(a)) = a THEN Floor(a) ELSE Floor(a) + 1

\* the interpolated abundances in the calculator's fixed-point units
ToFixed(abundances) ==
    [sp \in DOMAIN abundances |->
        [i \in DOMAIN abundances[sp] |->
            [j \in DOMAIN abundances[sp][i] |-> Floor(abundances[sp][i][j])]]]

\* measured_depths (the same at every wavelength) and measured_errors
MeasuredDepth == 10000 * FracOne
MeasuredError == 100

\* a depth returned by compute_depths as one number (nan for an empty bin)
DepthNumber(binned, d) ==
    IF binned THEN (IF d[2] = 0 THEN NaN ELSE d[1] \div d[2]) ELSE d

\* np.sum((calculated_depths - measured_depths)**2 / measured_errors**2)
ChiSquare(out, measured) ==
    LET d == [k \in 1..Len(out.depths) |-> DepthNumber(out.binned, out.depths[k])]
    IN IF \E k \in 1..Len(d) : d[k] = NaN
       THEN NaN
       ELSE SumSeq([k \in 1..Len(d) |->
                       ((d[k] - measured) * (d[k] - measured))
                           \div (MeasuredError * MeasuredError)])

\* variant: a cloud top exactly at low_P is let through
CloudtopRejected_open_low(cloudtop_P) ==
    \/ FLt(cloudtop_P, FromInt(low_P))
    \/ FLe(FromInt(high_P), cloudtop_P)

\* line 30
CloudtopRejected(cloudtop_P) ==
    \/ FLe(cloudtop_P, FromInt(low_P))
    \/ FLe(FromInt(high_P), cloudtop_P)

\* the values ln_prob returns: -np.inf, or -0.5 times a sum of squares
NegInf == [finite |-> FALSE]
Finite(chi_square) == [finite |-> TRUE, chi_square |-> chi_square]
NoValue == [none |-> TRUE]

MinusInf == [raised |-> "", value |-> NegInf, calls |-> <<>>]

\* Retriever.ln_prob; calls lists the arguments of its compute_depths calls
Retriever_ln_prob(g, c, fit_info, params) ==
    IF Len(params) # Len(fit_info.fit_params)
    THEN [raised |-> "NameError", value |-> NoValue, calls |-> <<>>]
    ELSE IF ~FitInfo_within_limits(fit_info, params)
    THEN MinusInf
    ELSE
      LET params_dict == interpret_param_array(fit_info, params)
          R == params_dict["R"]
          T == params_dict["T"]
          metallicity == Exp10(params_dict["logZ"])
          scatt_factor == Exp10(params_dict["log_scatt_factor"])
          cloudtop_P == Exp10(params_dict["log_cloudtop_P"])
          bounds == get_metallicity_bounds(g)
      IN IF FLt(metallicity, bounds[1]) \/ FLt(bounds[2], metallicity)
         THEN MinusInf
         ELSE IF T <= SeqMin(c.T_grid) \/ T >= SeqMax(c.T_grid)
         THEN MinusInf
         ELSE IF CloudtopRejected(cloudtop_P)
         THEN MinusInf
         ELSE
           LET abundances == AbundanceGetter_interp(g, metallicity)
               a == [ abundances |-> ToFixed(abundances.value),
                      P |-> LogSpace,
                      T |-> [i \in 1..num_P |-> T],
                      cloudtop_pressure |-> Ceil(cloudtop_P),
                      add_scattering |-> TRUE,
                      add_collisional_absorption |-> TRUE,
                      scattering_factor |-> Floor(scatt_factor),
                      planet_radius |-> R ]
           IN IF abundances.raised # ""
              THEN [raised |-> abundances.raised, value |-> NoValue, calls |-> <<>>]
              ELSE [ raised |-> "",
                     value |-> Finite(ChiSquare(TDC_compute_depths_value(c, a),
                                                MeasuredDepth)),
                     calls |-> << [ metallicity |-> metallicity,
                                    T |-> T,
                                    args |-> a,
                                    cloudtop_P |-> cloudtop_P ] >> ]


ln_prob(params, fit_info) ==
    /\ ret = Idle
    /\ ret' = [ op |-> "ln_prob",
                raised |-> Retriever_ln_prob(getter, calc, fit_info, params).raised,
                value |-> Retriever_ln_prob(getter, calc, fit_info, params).value,
                fit_info |-> fit_info,
                calls |-> Retriever_ln_prob(getter, calc, fit_info, params).calls,
                params |-> params ]
    /\ UNCHANGED <<solver, calc, instance, getter, binning, info>>

\* Retriever.run_emcee: the walkers' start positions are drawn, a calculator
\* is built and binned, and the sampler evaluates ln_prob on it, first at
\* the fiducial walker
run_emcee(wavelength_bins, fit_info) ==
    /\ ret = Idle
    /\ LET calculator == TDC_ApplyBins(TDC_init(fit_info.all_params["star_radius"].value,
                                                fit_info.all_params["g"].value),
                                       wavelength_bins)
       IN /\ calc' = calculator
          /\ ret' = [ op |-> "run_emcee",
                      raised |-> "",
                      fit_info |-> fit_info,
                      sampler_ran |-> TRUE,
                      lnprobability |->
                          Retriever_ln_prob(getter, calculator, fit_info,
                                            FiducialWalker(fit_info)).value ]
    /\ UNCHANGED <<solver, instance, getter, binning, info>>

---------------------------------------------------------------------------
(* A retrieval: the fit descriptions and proposals tried *)

Fixed(value) == FitParam(value, None, None, None, None)

\* limits that coincide with the ranges of the calculator's grids and of the
\* abundance store
TightFitInfo ==
    [ fit_params |-> <<"R", "T", "logZ", "log_cloudtop_P">>,
      all_params |->
        [ g |-> Fixed(Gravity),
          star_radius |-> Fixed(StarRadius),
          logZ |-> FitParam(0, 0, 1, 0 - 3, 9),
          T |-> FitParam(3, 3, 3, 2, 6),
          R |-> FitParam(100, 100, 100, 99, 101),
          log_cloudtop_P |-> FitParam(1, 1, 1, 0, 2),
          log_scatt_factor |-> Fixed(0) ] ]

WithParam(fit_info, name, param) ==
    [fit_info EXCEPT !.all_params[name] = param]

\* limits that reach outside those ranges
WideFitInfo ==
    WithParam(WithParam(WithParam(TightFitInfo,
        "T", FitParam(3, 3, 3, 1, 7)),
        "logZ", FitParam(0, 0, 1, 0 - 6, 12)),
        "log_cloudtop_P", FitParam(1, 1, 1, 0 - 2, 4))

FitInfos ==
    { TightFitInfo, WideFitInfo,
      WithParam(TightFitInfo, "T", FitParam(3, 3, 3, 1, 6)),
      WithParam(TightFitInfo, "T", FitParam(3, 3, 3, 6, 2)),
      WithParam(TightFitInfo, "T", FitParam(7, 3, 3, 2, 6)),
      WithParam(TightFitInfo, "logZ", FitParam(0, 0, 1, 0 - 3, 12)),
      WithParam(TightFitInfo, "log_cloudtop_P", FitParam(1, 1, 1, 0 - 2, 2)) }

Proposals ==
    { <<R, T, logZ, ct>> :
        R \in {99, 100}, T \in {1, 2, 3, 6, 7},
        logZ \in {0 - 6, 0 - 4, 0, 10, 11}, ct \in (0 - 2)..3 }
    \cup { <<100>> }

RetrievalBins == { << <<2, 6>>, <<6, LMax>> >>, << <<LMin, LMax>> >> }

InitRetrieve ==
    /\ solver = AtmosphereSolver_init([include_condensation |-> TRUE])
    /\ calc = TDC_init(StarRadius, Gravity)
    /\ instance = "Retriever"
    /\ getter = load_exotransmit_files(FALSE)
    /\ binning = NotBinning
    /\ ret = Idle
    /\ info = None

RunEmcee == \E bins \in RetrievalBins : \E f \in FitInfos : run_emcee(bins, f)

LnProb ==
    \E params \in Proposals : \E f \in {TightFitInfo, WideFitInfo} :
        ln_prob(params, f)

NextRetrieve == RunEmcee \/ LnProb \/ Discard

SpecRetrieve == InitRetrieve /\ [][NextRetrieve]_vars

\* the range of values the forward model supports for a fitted parameter
Supported(name) ==
    IF name = "T" THEN <<SeqMin(TemperaturesFile), SeqMax(TemperaturesFile)>>
    ELSE IF name = "logZ" THEN <<0 - 3, 9>>
    ELSE IF name = "log_cloudtop_P" THEN <<0, 2>>
    ELSE <<0, Infinity>>

InvalidLimits(fit_info) ==
    \E i \in 1..Len(fit_info.fit_params) :
        LET name == fit_info.fit_params[i]
            p == fit_info.all_params[name]
        IN \/ p.low_lim < Supported(name)[1]
           \/ p.high_lim > Supported(name)[2]
           \/ p.low_lim > p.high_lim
           \/ p.value < p.low_lim
           \/ p.value > p.high_lim

\* C17: run_emcee with a fit_info whose limits reach outside the supported
\* range, or are reversed, or exclude the best guess, fails with ValueError
\* and does not run the sampler
C17_InvalidLimitsRaise ==
    (ret.op = "run_emcee" /\ InvalidLimits(ret.fit_info)) =>
        (ret.raised = "ValueError" /\ ~ret.sampler_ran)

IsLnProb == ret.op = "ln_prob" /\ Len(ret.params) = Len(ret.fit_info.fit_params)

Proposed(name) ==
    ret.params[CHOOSE i \in 1..Len(ret.fit_info.fit_params) :
                  ret.fit_info.fit_params[i] = name]

OutsideFitLimits ==
    \E i \in 1..Len(ret.params) :
        LET p == ret.fit_info.all_params[ret.fit_info.fit_params[i]]
        IN ret.params[i] <= p.low_lim \/ ret.params[i] >= p.high_lim

MetallicityOutside(m) ==
    \/ \A i \in 1..Len(getter.metallicities) : FLt(m, getter.metallicities[i])
    \/ \A i \in 1..Len(getter.metallicities) : FLt(getter.metallicities[i], m)

TemperatureAtEnds(T) ==
    \/ \A i \in 1..Len(calc.T_grid) : T <= calc.T_grid[i]
    \/ \A i \in 1..Len(calc.T_grid) : T >= calc.T_grid[i]

CloudtopAtEnds(ct) == FLe(ct, FromInt(low_P)) \/ FLe(FromInt(high_P), ct)

OutOfRangeProposal ==
    \/ OutsideFitLimits
    \/ MetallicityOutside(Exp10(Proposed("logZ")))
    \/ TemperatureAtEnds(Proposed("T"))
    \/ CloudtopAtEnds(Exp10(Proposed("log_cloudtop_P")))

\* C18: ln_prob answers -inf, without calling compute_depths and without
\* raising, for every proposal of the right length with a fitted value not
\* strictly inside its limits, a metallicity outside the store's bounds, a
\* temperature at or outside the ends of the temperature grid or a cloud
\* top at or outside (low_P, high_P); every compute_depths call it makes has
\* parameters in range and at least one layer above the cloud
C18_LnProbGuards ==
    IsLnProb =>
        /\ OutOfRangeProposal =>
              (ret.raised = "" /\ ret.value = NegInf /\ ret.calls = <<>>)
        /\ \A k \in 1..Len(ret.calls) :
              LET call == ret.calls[k]
              IN /\ ~MetallicityOutside(call.metallicity)
                 /\ ~TemperatureAtEnds(call.T)
                 /\ ~CloudtopAtEnds(call.cloudtop_P)
                 /\ \E i \in 1..Len(call.args.P) :
                       FLt(FromInt(call.args.P[i]), call.cloudtop_P)

\* a proposal strictly inside wide fit limits, with cloud top exactly at
\* low_P, has been answered -inf
C18_Witness ==
    /\ IsLnProb
    /\ ~OutsideFitLimits
    /\ Exp10(Proposed("log_cloudtop_P")) = FromInt(low_P)
    /\ ~MetallicityOutside(Exp10(Proposed("logZ")))
    /\ ~TemperatureAtEnds(Proposed("T"))
    /\ ret.value = NegInf

\* ln_prob has called compute_depths and returned a finite value
C18_Called ==
    /\ IsLnProb
    /\ Len(ret.calls) = 1
    /\ ret.value.finite

---------------------------------------------------------------------------
(* change_wavelength_bins of the solver running concurrently with a        *)
(* forward-model evaluation on the same instance.  The binning thread      *)
(* advances one assignment group at a time; the evaluation reads the       *)
(* instance's attributes at one point between two such steps.              *)

\* lines 95-116: reset, validation, the two flags, and cond of lines 118-120
begin_change_wavelength_bins(bins) ==
    /\ binning = NotBinning
    /\ LET s0 == ResetIfRebinned(solver)
       IN IF bins = None \/ FirstInvalid(s0.lambda_grid, Val(bins), 1) > 0
          THEN /\ solver' = s0
               /\ binning' = NotBinning
          ELSE /\ solver' = MarkRebinned(s0, Val(bins))
               /\ binning' = [ cond |-> BinCond(s0.lambda_grid, Val(bins)),
                               pc |-> "absorption_data" ]
    /\ UNCHANGED <<calc, instance, getter, ret, info>>

\* lines 122-123
restrict_absorption_data ==
    /\ binning.pc = "absorption_data"
    /\ solver' = RestrictAbsorption(solver, binning.cond)
    /\ binning' = [binning EXCEPT !.pc = "lambda_grid"]
    /\ UNCHANGED <<calc, instance, getter, ret, info>>

\* lines 125-126
restrict_lambda_grid ==
    /\ binning.pc = "lambda_grid"
    /\ solver' = RestrictLambda(solver, binning.cond)
    /\ binning' = [binning EXCEPT !.pc = "collisional_absorption_data"]
    /\ UNCHANGED <<calc, instance, getter, ret, info>>

\* lines 128-129, after which the call returns
restrict_collisional_absorption_data ==
    /\ binning.pc = "collisional_absorption_data"
    /\ solver' = RestrictCollisional(solver, binning.cond)
    /\ binning' = NotBinning
    /\ UNCHANGED <<calc, instance, getter, ret, info>>

\* lengths of the wavelength axes an evaluation reads
WavelengthAxes(s) ==
    [ absorption_data |->
          {Len(s.absorption_data[key][t][p]) :
              key \in DOMAIN s.absorption_data,
              t \in 1..Len(TemperaturesFile), p \in 1..Len(PressuresFile)},
      lambda_grid |-> Len(s.lambda_grid),
      collisional_absorption_data |->
          {Len(s.collisional_absorption_data[key][t]) :
              key \in DOMAIN s.collisional_absorption_data,
              t \in 1..Len(TemperaturesFile)},
      N_lambda |-> s.N_lambda ]

OneLength(axes) ==
    /\ axes.absorption_data = {axes.lambda_grid}
    /\ axes.collisional_absorption_data = {axes.lambda_grid}
    /\ axes.N_lambda = axes.lambda_grid

\* compute_params called by the evaluating thread; on tables of different
\* wavelength-axis lengths (none of them 1) the in-place additions of lines
\* 369-385 raise ValueError
evaluate(a) ==
    /\ ret = Idle
    /\ IF OneLength(WavelengthAxes(solver))
       THEN /\ solver' = ComputeParams(solver, a).solver
            /\ ret' = [ op |-> "evaluate",
                        raised |-> ComputeParams(solver, a).ret.raised,
                        value |-> ComputeParams(solver, a).ret.value,
                        args |-> a,
                        serialized |-> binning = NotBinning,
                        seen |-> WavelengthAxes(solver) ]
       ELSE /\ solver' = solver
            /\ ret' = [ op |-> "evaluate",
                        raised |-> "ValueError",
                        value |-> <<>>,
                        args |-> a,
                        serialized |-> binning = NotBinning,
                        seen |-> WavelengthAxes(solver) ]
    /\ UNCHANGED <<calc, instance, getter, binning, info>>

\* bin lists that keep at least two wavelengths, an invalid one, and None
RaceBinArgs ==
    { None,
      Some(<< <<0, 6>> >>),
      Some(<< <<2, 6>>, <<6, LMax>> >>),
      Some(<< <<6, LMax>> >>),
      Some(<< <<LMin, LMax>> >>) }

RaceBegin == \E bins \in RaceBinArgs : begin_change_wavelength_bins(bins)

RaceBinning ==
    \/ restrict_absorption_data
    \/ restrict_lambda_grid
    \/ restrict_collisional_absorption_data

RaceEvaluate ==
    \E P \in P_profiles, ct \in {2, 4, Infinity} :
        evaluate(ParamArgs(P, [i \in 1..Len(P) |-> 3], <<Some(0), Some(5), None>>,
                           ct, DefaultSwitches, None))

NextRace == RaceBegin \/ RaceBinning \/ RaceEvaluate \/ Discard

SpecRace == InitSolver /\ [][NextRace]_vars

\* C19: an evaluation serialized with change_wavelength_bins sees absorption
\* tables, collisional tables and lambda_grid with one common wavelength-axis
\* length (an interleaved one can see restricted absorption tables next to
\* a native lambda_grid and N_lambda: C19_Witness)
C19_SerializedSeesOneLength ==
    (ret.op = "evaluate" /\ ret.serialized) => OneLength(ret.seen)

\* an interleaved evaluation has read absorption tables already restricted
\* while lambda_grid and N_lambda still had the native length
C19_Witness ==
    /\ ret.op = "evaluate"
    /\ ~ret.serialized
    /\ \A n \in ret.seen.absorption_data : n < NLambda
    /\ ret.seen.lambda_grid = NLambda
    /\ ret.seen.N_lambda = NLambda

---------------------------------------------------------------------------
(* TransitDepthCalculator.get_above_cloud_r_and_dr in the arithmetic of    *)
(* the code: P, T, mu, g and planet_radius are floating-point numbers.     *)

k_B == FromInt(ScaleHeightUnit)
amu == FromInt(1)

\* np.cumsum(dr)[i - 1]; np.sum(dr) adds in the same order for a few layers
RECURSIVE FCumSum(_, _)
FCumSum(s, i) == IF i = 0 THEN <<0, 0>> ELSE FAdd(FCumSum(s, i - 1), s[i])

\* lines 102-104
LayerThickness(P, T, mu, g) ==
    [i \in 1..Len(P) |->
        IF i = 1
        THEN FDiv(FMul(k_B, T[1]), FMul(FMul(mu[1], amu), g))
        ELSE FDiv(FMul(FMul(FDiv(FSub(P[i], P[i - 1]), P[i]), k_B), T[i]),
                  FMul(FMul(mu[i], amu), g))]

\* variant: every radius is returned, whatever the mask
r_and_dr_unmasked(P, T, mu, g, planet_radius, P_cond) ==
    LET dr == LayerThickness(P, T, mu, g)
        radius_with_atm == FAdd(FCumSum(dr, Len(dr)), planet_radius)
        radii == [i \in 1..Len(P) |-> FSub(radius_with_atm, FCumSum(dr, i))]
    IN [dr |-> dr, radii |-> <<radius_with_atm>> \o radii]

\* lines 102-110, with mu the mean molecular weight built at lines 96-100
r_and_dr(P, T, mu, g, planet_radius, P_cond) ==
    LET dr == LayerThickness(P, T, mu, g)
        radius_with_atm == FAdd(FCumSum(dr, Len(dr)), planet_radius)
        radii == [i \in 1..Len(P) |-> FSub(radius_with_atm, FCumSum(dr, i))]
    IN [dr |-> dr, radii |-> <<radius_with_atm>> \o MaskSeq(radii, P_cond)]

\* the call made by compute_depths (lines 123-124) on a calculator of
\* gravity g
get_above_cloud_r_and_dr(P, T, mu, planet_radius, cloudtop_pressure) ==
    /\ ret = Idle
    /\ LET P_cond == [i \in 1..Len(P) |-> FLt(P[i], cloudtop_pressure)]
       IN ret' = [ op |-> "get_above_cloud_r_and_dr",
                   value |-> r_and_dr(P, T, mu, FromInt(calc.g), planet_radius, P_cond),
                   P |-> P,
                   T |-> T,
                   mu |-> mu,
                   planet_radius |-> planet_radius,
                   P_cond |-> P_cond ]
    /\ UNCHANGED <<solver, calc, instance, getter, binning, info>>

\* strictly ascending pressure profiles: one, two and three layers, wide
\* and narrow steps
LayerPressures ==
    { <<FromInt(1)>>,
      <<FromInt(1), FromInt(2)>>,
      <<FromInt(1), FromInt(2), FromInt(4)>>,
      <<FromInt(1), Normalize(11, 0 - 1), FromInt(4)>>,
      <<Normalize(5, 0 - 1), FromInt(3), FromInt(300)>> }

LayerValues == {FromInt(2), FromInt(3), FromInt(70)}

LayerRadii == {FromInt(100), FromInt(700), FromInt(10000)}

\* cloud tops between the layers, and np.inf
LayerCloudtops == {Normalize(15, 0 - 1), FromInt(3), FromInt(Infinity)}

InitLayers ==
    /\ solver = AtmosphereSolver_init([include_condensation |-> TRUE])
    /\ \E g \in {Gravity, Gravity + 2} : calc = TDC_init(StarRadius, g)
    /\ instance = "TransitDepthCalculator"
    /\ getter = load_ggchem_files(TRUE, AllFilesExist)
    /\ binning = NotBinning
    /\ ret = Idle
    /\ info = None

Layers ==
    \E P \in LayerPressures, planet_radius \in LayerRadii, ct \in LayerCloudtops :
       \E T \in [1..Len(P) -> LayerValues], mu \in [1..Len(P) -> {FromInt(2), FromInt(3)}] :
          get_above_cloud_r_and_dr(P, T, mu, planet_radius, ct)

NextLayers == Layers \/ Discard

SpecLayers == InitLayers /\ [][NextLayers]_vars

IsLayersCall == ret.op = "get_above_cloud_r_and_dr"

\* a * 10^(-e0) as an integer, for e0 not above the exponent of a
Scaled(a, e0) == a[1] * Pow10(a[2] - e0)

\* |a - b| is at most one unit in the last place of c
WithinUlp(a, b, c) ==
    LET e0 == SeqMin(<<a[2], b[2], c[2]>>)
    IN Abs(Scaled(a, e0) - Scaled(b, e0)) <= Pow10(c[2] - e0)

LayersShape ==
    /\ \A i \in 1..Len(ret.value.dr) : ret.value.dr[i][1] > 0
    /\ Len(ret.value.dr) = Len(ret.P)
    /\ ret.value.dr[1] =
          FDiv(FMul(FromInt(ScaleHeightUnit), ret.T[1]),
               FMul(ret.mu[1], FromInt(calc.g)))
    /\ Len(ret.value.radii)
          = Cardinality({i \in 1..Len(ret.P_cond) : ret.P_cond[i]}) + 1

NoCloud == \A i \in 1..Len(ret.P_cond) : ret.P_cond[i]

---------------------------------------------------------------------------
(* FitInfo as an object that is built and then extended call by call       *)
(* (src/fit_info.py)                                                       *)

MaxFitParams == 3

\* FitInfo.__init__
FitInfo_init(guesses_dict) ==
    [ fit_params |-> <<>>,
      all_params |-> [key \in DOMAIN guesses_dict |->
                         FitParam(guesses_dict[key], None, None, None, None)] ]

\* FitInfo.add_fit_param, when it does not raise
FitInfo_add_fit_param(fit_info, name, low_guess, high_guess, low_lim, high_lim, value) ==
    LET v == IF value = None THEN fit_info.all_params[name].value ELSE Val(value)
    IN [ fit_params |-> Append(fit_info.fit_params, name),
         all_params |-> [key \in DOMAIN fit_info.all_params \cup {name} |->
                            IF key = name
                            THEN FitParam(v, low_guess, high_guess, low_lim, high_lim)
                            ELSE fit_info.all_params[key]] ]

\* FitInfo.get_param_array
FitInfo_get_param_array(fit_info) ==
    [i \in 1..Len(fit_info.fit_params) |->
        fit_info.all_params[fit_info.fit_params[i]].value]

\* FitInfo.get_num_fit_params
FitInfo_get_num_fit_params(fit_info) == Len(fit_info.fit_params)

\* np.random.uniform(low, high): some number of [low, high)
RandomUniform(low, high) == {low, (low + high) \div 2}

\* FitInfo.generate_rand_param_arrays: the arrays it can return
FitInfo_generate_rand_param_arrays(fit_info, num_arrays) ==
    LET n == Len(fit_info.fit_params)
        Row(i) == IF i = 1
                  THEN {FitInfo_get_param_array(fit_info)}
                  ELSE {row \in [1..n -> UNION {RandomUniform(
                                     fit_info.all_params[fit_info.fit_params[k]].low_guess,
                                     fit_info.all_params[fit_info.fit_params[k]].high_guess)
                                     : k \in 1..n}] :
                          \A k \in 1..n :
                              row[k] \in RandomUniform(
                                  fit_info.all_params[fit_info.fit_params[k]].low_guess,
                                  fit_info.all_params[fit_info.fit_params[k]].high_guess)}
    IN {rows \in [1..num_arrays -> UNION {Row(i) : i \in 1..num_arrays}] :
           \A i \in 1..num_arrays : rows[i] \in Row(i)}

add_fit_param(name, low_guess, high_guess, low_lim, high_lim, value) ==
    /\ ret = Idle
    /\ info # None
    /\ Len(info.fit_params) < MaxFitParams
    /\ IF value = None /\ name \notin DOMAIN info.all_params
       THEN /\ ret' = [op |-> "add_fit_param",
                       raised |-> "KeyError",
                       name |-> name]
            /\ info' = info
       ELSE /\ ret' = [op |-> "add_fit_param",
                       raised |-> "",
                       name |-> name]
            /\ info' = FitInfo_add_fit_param(info, name, low_guess, high_guess,
                                             low_lim, high_lim, value)
    /\ UNCHANGED <<solver, calc, instance, getter, binning>>

get_param_array ==
    /\ ret = Idle
    /\ info # None
    /\ ret' = [op |-> "get_param_array",
               raised |-> "",
               value |-> FitInfo_get_param_array(info)]
    /\ UNCHANGED <<solver, calc, instance, getter, binning, info>>

\* FitInfo.interpret_param_array: the exception class named at the length
\* check is not defined anywhere, so what is raised is a NameError
FitInfo_interpret_param_array(array) ==
    /\ ret = Idle
    /\ info # None
    /\ ret' = IF Len(array) # Len(info.fit_params)
              THEN [op |-> "interpret_param_array",
                    raised |-> "NameError",
                    value |-> None,
                    array |-> array]
              ELSE [op |-> "interpret_param_array",
                    raised |-> "",
                    value |-> interpret_param_array(info, array),
                    array |-> array]
    /\ UNCHANGED <<solver, calc, instance, getter, binning, info>>

generate_rand_param_arrays(num_arrays) ==
    /\ ret = Idle
    /\ info # None
    /\ \E rows \in FitInfo_generate_rand_param_arrays(info, num_arrays) :
           ret' = [op |-> "generate_rand_param_arrays", raised |-> "", value |-> rows]
    /\ UNCHANGED <<solver, calc, instance, getter, binning, info>>

get_num_fit_params ==
    /\ ret = Idle
    /\ info # None
    /\ ret' = [op |-> "get_num_fit_params",
               raised |-> "",
               value |-> FitInfo_get_num_fit_params(info)]
    /\ UNCHANGED <<solver, calc, instance, getter, binning, info>>

---------------------------------------------------------------------------
(* A client that builds a FitInfo and registers fitted parameters *)

FitGuesses == { [T |-> 3, R |-> 100], [T |-> 5] }
FitNames == {"T", "R", "logZ"}
FitValues == {None, Some(6)}
FitArrayValues == {7, 8}

\* the guess range and the limits a client registers for a name
FitRange(name) ==
    IF name = "R" THEN <<90, 110, 0, 200>>
    ELSE IF name = "T" THEN <<2, 4, 1, 7>>
    ELSE <<0 - 1, 3, 0 - 1, 3>>

InitFit ==
    /\ solver = AtmosphereSolver_init([include_condensation |-> TRUE])
    /\ calc = TDC_init(StarRadius, Gravity)
    /\ instance = "FitInfo"
    /\ getter = load_ggchem_files(TRUE, AllFilesExist)
    /\ binning = NotBinning
    /\ ret = Idle
    /\ \E guesses_dict \in FitGuesses : info = FitInfo_init(guesses_dict)

AddFitParam ==
    \E name \in FitNames, value \in FitValues :
        add_fit_param(name, FitRange(name)[1], FitRange(name)[2],
                      FitRange(name)[3], FitRange(name)[4], value)

InterpretParamArray ==
    \E n \in 0..(MaxFitParams + 1) : \E array \in [1..n -> FitArrayValues] :
        FitInfo_interpret_param_array(array)

InterpretOwnArray == FitInfo_interpret_param_array(FitInfo_get_param_array(info))

GenerateRandParamArrays == \E num_arrays \in 1..2 : generate_rand_param_arrays(num_arrays)

NextFit ==
    \/ AddFitParam
    \/ get_param_array
    \/ InterpretParamArray
    \/ InterpretOwnArray
    \/ GenerateRandParamArrays
    \/ get_num_fit_params
    \/ Discard

SpecFit == InitFit /\ [][NextFit]_vars

---------------------------------------------------------------------------
(* Claims about FitInfo *)

Fitted(fit_info) == {fit_info.fit_params[i] : i \in 1..Len(fit_info.fit_params)}

\* C22: interpret_param_array(a), for an array a with one entry per fitted
\* parameter, returns a mapping over exactly the keys of all_params that
\* maps the i-th registered fitted parameter to a[i] and every other
\* parameter to its stored value, so that the array of get_param_array is
\* mapped to the stored values; an array of any other length is rejected
\* with an error and no mapping is returned
C22_InterpretParamArray ==
    ret.op = "interpret_param_array" =>
        IF Len(ret.array) = Len(info.fit_params)
        THEN /\ ret.raised = ""
             /\ DOMAIN ret.value = DOMAIN info.all_params
             /\ \A i \in 1..Len(info.fit_params) :
                    ret.value[info.fit_params[i]] = ret.array[i]
             /\ \A key \in DOMAIN info.all_params \ Fitted(info) :
                    ret.value[key] = info.all_params[key].value
             /\ ret.array = FitInfo_get_param_array(info) =>
                    \A key \in DOMAIN info.all_params :
                        ret.value[key] = info.all_params[key].value
        ELSE ret.raised # "" /\ ret.value = None

\* C23: after any sequence of add_fit_param calls, with names registered
\* again and calls that fail on an unknown name without a value, fit_params
\* holds no name twice, every name in it is a key of all_params that carries
\* limits, and get_num_fit_params() is the number of distinct fitted
\* parameters, which is the row length of generate_rand_param_arrays and of
\* get_param_array
C23_FitParamsDistinct ==
    info # None =>
        /\ \A i, j \in 1..Len(info.fit_params) :
               info.fit_params[i] = info.fit_params[j] => i = j
        /\ \A name \in Fitted(info) :
               /\ name \in DOMAIN info.all_params
               /\ info.all_params[name].low_lim = FitRange(name)[3]
               /\ info.all_params[name].high_lim = FitRange(name)[4]
        /\ FitInfo_get_num_fit_params(info) = Cardinality(Fitted(info))
        /\ ret.op = "get_num_fit_params" => ret.value = Cardinality(Fitted(info))
        /\ ret.op = "get_param_array" => Len(ret.value) = Cardinality(Fitted(info))
        /\ ret.op = "generate_rand_param_arrays" =>
               \A i \in 1..Len(ret.value) : Len(ret.value[i]) = Cardinality(Fitted(info))

==========================================================================
